---------------------------- MODULE Spec2Model ----------------------------
(***************************************************************************)
(* Model of the session-testing drivers of checkcookie:                    *)
(*   - Enhanced Session Checker v3.0 (src/unnamed/part_001):               *)
(*     runAutoTestingMode / runManualTestingMode, T1CookieInjector,        *)
(*     SessionAnalyzer, saveTestResults, the SIGINT handler;               *)
(*   - Enhanced Session Checker v2.0 (src/unnamed/part_002):               *)
(*     main (modes 2 and 3), setCookiesWithTiming, checkLoginStatus,       *)
(*     the SIGINT handler;                                                 *)
(*   - the expiry filters of both programs and of session_validator.js,    *)
(*     one loop iteration per step, with a wall clock that may advance;    *)
(*   - the discovery phase of v3.0 (CookieIntelligenceSystem): the file    *)
(*     processors, analyzeDiscoveredData, isAuthenticatedUrl and           *)
(*     saveWorkableData, on strings.                                       *)
(*   - the page classifiers of both programs on the text of a page, the    *)
(*     mode 2 / mode 3 decision of v2.0 with its prompt loop, and the      *)
(*     SessionLogger of v2.0 (maskValue, the log calls, generateSummary).  *)
(*   - validateSessions of session_validator.js with its browser per URL   *)
(*     test, retryOperation, deduplicateDomains, the prepared file names   *)
(*     (safeDomain and back), determineTestUrl of v3.0, and the callbacks  *)
(*     of navigateWithLogging of v2.0 against the end of the session.      *)
(* The browser driver (puppeteer) is the environment: every driver call    *)
(* either succeeds or throws, and the cookie jar of the one browser        *)
(* context is shared by every page opened in it.                           *)
(***************************************************************************)
EXTENDS Integers, Sequences, FiniteSets, TLC

(* ------------------------------ bounds --------------------------------- *)
NumDomains == 2        \* prepared domains tested in one run
MaxCookies == 1        \* cookie lines per prepared domain in a run
MaxPrepared == 31      \* prepared cookie list length for setCookiesWithTiming
MaxLines == 2          \* cookie lines of the file one filtering pass reads
MaxClock == 3          \* last value of the wall clock, in seconds
MaxFileLines == 3      \* lines of a scanned cookie file
MaxHistoryLines == 1   \* lines of a scanned history file
MaxEndpointLines == 6  \* lines of the history file of the endpoint ranking
MaxSnippets == 3       \* snippets in the markup of a classified page
MaxValueLen == 6       \* characters of a cookie value given to maskValue
MaxCalls == 4          \* calls made on one SessionLogger
MaxLogClock == 1       \* last value of Date.now() - startTime of a SessionLogger
MaxPrompts == 3        \* times the operator is asked about one domain
MaxTests == 2          \* URL tests of one validation
MaxRetries == 3        \* largest maxRetries of a retryOperation call
MaxDedupFiles == 3     \* cookie files handed to the deduplication
MaxMtime == 2          \* largest modification time of a cookie file
MaxDomainLen == 4      \* characters of a discovered domain
MaxListed == 2         \* authenticated endpoints listed in a file header
MaxVisits == 2         \* largest visit count of an endpoint
MaxNavClock == 8       \* seconds of one navigation the model follows
MaxNavEvents == 5      \* events of the session log of one navigation

(* ------------------------- program constants --------------------------- *)
batchSize == 15
MIXED_THRESHOLD == 70
maskCookieValues == TRUE

Domains == 1..NumDomains
Variants == {"v3auto", "v3manual", "v2auto", "v2mixed"}
BLANK == 0             \* about:blank, the site of a page that never navigated

VARIABLES
  variant,       \* which program / mode is running
  pc,            \* position of the main flow
  idx,           \* index of the domain under test (testCount / current)
  files,         \* per domain: cookie lines and how many pass preparation
  browser,       \* "none" | "open" | "closed"
  pages,         \* open pages, named by the test that opened them (0: the reused tab)
  pageSite,      \* site the reused v2 tab is currently on
  jar,           \* owners (tests) of the cookies in the browser's cookie jar
  launchLog,     \* launch configurations attempted so far
  trace,         \* driver calls / phases of the test in progress
  results,       \* the results array
  raised,        \* tests in which an exception was thrown
  navFailed,     \* v2: the inner try of the test in progress threw
  fallbacks,     \* v2: fallback injections of the test in progress (TRUE: no batch failed)
  totalInjected, \* v2: SessionLogger cookieStats.totalInjected of the test
  loginResult,   \* v2: loginResult of the test in progress
  summary,       \* summary written at the end of the run
  interrupted,   \* SIGINT handler ran
  bN, bI, bSet, bLog, bPc   \* one call of setCookiesWithTiming

runVars == <<variant, pc, idx, files, browser, pages, pageSite, jar, launchLog,
             trace, results, raised, navFailed, fallbacks, totalInjected,
             loginResult, summary, interrupted>>
batchVars == <<bN, bI, bSet, bLog, bPc>>

VARIABLES
  clock,         \* Math.floor(Date.now() / 1000)
  fPass,         \* the filtering pass in progress
  fLines,        \* the cookie lines the pass iterates over
  fPos,          \* lines of fLines already handled
  fNow,          \* "const now" of readAndValidateCookies, taken before its loop
  fLog,          \* per handled line: its fields, the now it was compared with, the verdict
  fKept          \* lines the pass kept (pushed)

filterVars == <<clock, fPass, fLines, fPos, fNow, fLog, fKept>>

VARIABLES
  scanQueue,       \* the files walkDirectory finds, in the order it visits them
  scanPos,         \* files of scanQueue already processed
  cookies,         \* discoveredData.cookies, in insertion order
  history,         \* discoveredData.history
  passwords,       \* discoveredData.passwords
  autofills,       \* discoveredData.autofills
  crossReferences, \* discoveredData.crossReferences, in insertion order
  savedDomains,    \* return value of saveWorkableData
  dPc              \* "idle" | "scan" | "analyzed" | "reanalyzed" | "saved"

discVars == <<scanQueue, scanPos, cookies, history, passwords, autofills, crossReferences,
              savedDomains, dPc>>

VARIABLES
  url,           \* argument of one call of isAuthenticatedUrl
  authResult     \* its return value, "none" before the call

urlVars == <<url, authResult>>

VARIABLES
  pageHtml,      \* html of the page given to a classifier
  pageTitle,     \* its title
  pageUrl,       \* its URL
  detection,     \* return value of performDetectionAnalysis (v3), "none" before the call
  loginCheck     \* return value of checkLoginStatus (v2), "none" before the call

classVars == <<pageHtml, pageTitle, pageUrl, detection, loginCheck>>

VARIABLES
  cookieValue,   \* value of a cookie given to SessionLogger.maskValue
  maskedValue    \* its return value, "none" before the call

maskVars == <<cookieValue, maskedValue>>

VARIABLES
  logNow,            \* Date.now() relative to the logger's startTime
  events,            \* SessionLogger.events
  injectedCookies,   \* sessionData.injectedCookies
  httpRequests,      \* sessionData.httpRequests
  sessionStatus,     \* sessionData.sessionStatus
  sessionConfidence, \* sessionData.confidence
  sessionIndicators, \* sessionData.indicators
  logSummary,        \* return value of generateSummary, "none" before the call
  calls,             \* the calls made on the logger so far, with their arguments
  lPc                \* "idle" | "open" | "summarized"

logVars == <<logNow, events, injectedCookies, httpRequests, sessionStatus, sessionConfidence,
             sessionIndicators, logSummary, calls, lPc>>

VARIABLES
  mode,            \* "2" (auto) | "3" (mixed)
  mixedResult,     \* loginResult of the mode 2/3 decision, NoResult before checkLoginStatus
  autoResult,      \* what checkLoginStatus returned
  manualOverride,  \* manualOverride of the decision
  prompts,         \* number of times ask() was called
  lastAnswer,      \* the last answer, lower-cased
  mPc              \* "idle" | "check" | "ask" | "decided"

mixedVars == <<mode, mixedResult, autoResult, manualOverride, prompts, lastAnswer, mPc>>

VARIABLES
  vPc,        \* "idle" | "loop" | "setCookie" | "goto" | "screenshot" | "ask" | "finally" | "saved" | "fatal"
  vI,         \* URL tests finished so far
  vBrowser,   \* the local `browser` of the current test: Null or the launched instance
  vOpen,      \* browser instances that are running
  vLaunches,  \* number of puppeteer.launch calls that returned a browser
  vResults,   \* results of validateSessions
  vCounts     \* the four counts printed after the results were saved

valVars == <<vPc, vI, vBrowser, vOpen, vLaunches, vResults, vCounts>>

VARIABLES
  rMax,        \* maxRetries of the retryOperation call
  rI,          \* the loop variable i
  rPc,         \* "idle" | "call" | "wait" | "done"
  rLastError,  \* lastError, Undefined before the first failure
  rAttempts,   \* outcome of every invocation of operation so far
  rWaits,      \* the delays of the setTimeout calls so far, in ms
  rResult      \* how retryOperation settled: returned value or thrown error

retryVars == <<rMax, rI, rPc, rLastError, rAttempts, rWaits, rResult>>

VARIABLES
  cookieFiles,  \* the cookie files found: their mtime and the domains parsed from them
  ddPos,        \* files of cookieFiles handled so far
  domainFiles,  \* Map domain -> [{ file, mtime, cookies }]
  deduped,      \* Map returned by deduplicateDomains
  ddPc          \* "idle" | "parse" | "deduped"

dedupVars == <<cookieFiles, ddPos, domainFiles, deduped, ddPc>>

VARIABLES
  discoveredDomain,  \* domainData.domain of a domain that discovery saves
  preparedFile,      \* base name of the prepared cookie file written for it
  testedDomain,      \* the domain the testing modes derive from the file name
  fnPc               \* "idle" | "save" | "written" | "tested"

nameVars == <<discoveredDomain, preparedFile, testedDomain, fnPc>>

VARIABLES
  tuDomain,     \* the domain under test
  tuEndpoints,  \* analysis.authenticatedEndpoints of the domain, most visited first
  tuLines,      \* the lines of the prepared cookie file
  testUrl,      \* return value of determineTestUrl
  tuPc          \* "idle" | "save" | "saved" | "done"

testUrlVars == <<tuDomain, tuEndpoints, tuLines, testUrl, tuPc>>

VARIABLES
  nClock,     \* seconds since navigateWithLogging registered its listener and timer
  nListener,  \* responseHandler is registered on the page
  nTimer,     \* the 5 second timeout is pending
  nPromise,   \* responsePromise: "pending" | "resolved"
  nGoto,      \* navigationPromise: "pending" | "resolved" | "rejected"
  nBody,      \* response.text(): "none" | "pending" | "settled"
  nMain,      \* main: "idle" | "navigate" | "waiting" | "terminal"
  nLeft,      \* nClock when main left navigateWithLogging
  nEvents,    \* types of the events of the session log
  nRequest,   \* response data attached to the request record
  nFrozen     \* the log as it was when the terminal event was logged and summarised

navVars == <<nClock, nListener, nTimer, nPromise, nGoto, nBody, nMain, nLeft, nEvents,
             nRequest, nFrozen>>

vars == <<runVars, batchVars, filterVars, discVars, urlVars, classVars, maskVars, logVars,
          mixedVars,
    valVars,
    retryVars,
    dedupVars,
    nameVars,
    testUrlVars,
    navVars>>
offRun ==
  <<batchVars, filterVars, discVars, urlVars, classVars,
    maskVars, logVars, mixedVars,
    valVars,
    retryVars,
    dedupVars,
    nameVars,
    testUrlVars,
    navVars>>
offBatch ==
  <<runVars, filterVars, discVars, urlVars, classVars,
    maskVars, logVars, mixedVars,
    valVars,
    retryVars,
    dedupVars,
    nameVars,
    testUrlVars,
    navVars>>
offFilter ==
  <<runVars, batchVars, discVars, urlVars, classVars,
    maskVars, logVars, mixedVars,
    valVars,
    retryVars,
    dedupVars,
    nameVars,
    testUrlVars,
    navVars>>
offDisc ==
  <<runVars, batchVars, filterVars, urlVars, classVars,
    maskVars, logVars, mixedVars,
    valVars,
    retryVars,
    dedupVars,
    nameVars,
    testUrlVars,
    navVars>>
offUrl ==
  <<runVars, batchVars, filterVars, discVars, classVars,
    maskVars, logVars, mixedVars,
    valVars,
    retryVars,
    dedupVars,
    nameVars,
    testUrlVars,
    navVars>>
offClass ==
  <<runVars, batchVars, filterVars, discVars, urlVars,
    maskVars, logVars, mixedVars,
    valVars,
    retryVars,
    dedupVars,
    nameVars,
    testUrlVars,
    navVars>>
offMask ==
  <<runVars, batchVars, filterVars, discVars, urlVars,
    classVars, logVars, mixedVars,
    valVars,
    retryVars,
    dedupVars,
    nameVars,
    testUrlVars,
    navVars>>
offLog ==
  <<runVars, batchVars, filterVars, discVars, urlVars,
    classVars, maskVars, mixedVars,
    valVars,
    retryVars,
    dedupVars,
    nameVars,
    testUrlVars,
    navVars>>
offMixed ==
  <<runVars, batchVars, filterVars, discVars, urlVars,
    classVars, maskVars, logVars,
    valVars,
    retryVars,
    dedupVars,
    nameVars,
    testUrlVars,
    navVars>>
offVal ==
  <<runVars, batchVars, filterVars, discVars, urlVars, classVars, maskVars, logVars, mixedVars,
    retryVars,
    dedupVars,
    nameVars,
    testUrlVars,
    navVars>>
offRetry ==
  <<runVars, batchVars, filterVars, discVars, urlVars, classVars, maskVars, logVars, mixedVars, valVars,
    dedupVars,
    nameVars,
    testUrlVars,
    navVars>>
offDedup ==
  <<runVars, batchVars, filterVars, discVars, urlVars, classVars, maskVars, logVars, mixedVars, valVars, retryVars,
    nameVars,
    testUrlVars,
    navVars>>
offName ==
  <<runVars, batchVars, filterVars, discVars, urlVars, classVars, maskVars, logVars, mixedVars, valVars, retryVars, dedupVars,
    testUrlVars,
    navVars>>
offTestUrl ==
  <<runVars, batchVars, filterVars, discVars, urlVars, classVars, maskVars, logVars, mixedVars, valVars, retryVars, dedupVars, nameVars,
    navVars>>
offNav ==
  <<runVars, batchVars, filterVars, discVars, urlVars, classVars, maskVars, logVars, mixedVars, valVars, retryVars, dedupVars, nameVars, testUrlVars>>


IsV3 == variant \in {"v3auto", "v3manual"}
IsV2 == variant \in {"v2auto", "v2mixed"}

Min(a, b) == IF a < b THEN a ELSE b

NoResult == [loggedIn |-> FALSE, confidence |-> 0]
NoSummary == [totalTested |-> 0, successful |-> 0, failed |-> 0, errors |-> 0]

(* --------------------- setCookiesWithTiming (v2) ----------------------- *)
\* cookies.slice(i, i + batchSize): the 1-based indices of the batch at offset i
BatchOf(i, n) == (i + 1)..Min(i + batchSize, n)

\* number of loop iterations of "for (i = 0; i < cookies.length; i += batchSize)"
NumBatches(n) == (n + batchSize - 1) \div batchSize

\* validCookiesSet after the loop, given which batch's page.setCookie succeeded
RECURSIVE SumBatches(_, _, _)
SumBatches(k, n, ok) ==
  IF k = 0 THEN 0
  ELSE SumBatches(k - 1, n, ok)
       + (IF ok[k] THEN Cardinality(BatchOf((k - 1) * batchSize, n)) ELSE 0)

setCookiesWithTiming(n, ok) == SumBatches(NumBatches(n), n, ok)

BatchInit ==
  /\ bN \in 0..MaxPrepared
  /\ bI = 0
  /\ bSet = 0
  /\ bLog = <<>>
  /\ bPc = "loop"

\* one iteration of the batch loop: page.setCookie(...batch) succeeds
BatchOk ==
  /\ bPc = "loop"
  /\ UNCHANGED offBatch
  /\ bI < bN
  /\ bSet' = bSet + Cardinality(BatchOf(bI, bN))
  /\ bLog' = Append(bLog, [lo |-> bI + 1, hi |-> Min(bI + batchSize, bN), ok |-> TRUE])
  /\ bI' = bI + batchSize
  /\ UNCHANGED <<bN, bPc>>

\* one iteration of the batch loop: page.setCookie(...batch) throws, the catch logs it
BatchFail_Abort ==
  /\ bPc = "loop"
  /\ UNCHANGED offBatch
  /\ bI < bN
  /\ bLog' = Append(bLog, [lo |-> bI + 1, hi |-> Min(bI + batchSize, bN), ok |-> FALSE])
  /\ bI' = bN
  /\ UNCHANGED <<bN, bSet, bPc>>

BatchFail ==
  /\ bPc = "loop"
  /\ UNCHANGED offBatch
  /\ bI < bN
  /\ bLog' = Append(bLog, [lo |-> bI + 1, hi |-> Min(bI + batchSize, bN), ok |-> FALSE])
  /\ bI' = bI + batchSize
  /\ UNCHANGED <<bN, bSet, bPc>>

\* the loop condition fails: return validCookiesSet
BatchReturn ==
  /\ bPc = "loop"
  /\ UNCHANGED offBatch
  /\ bI >= bN
  /\ bPc' = "returned"
  /\ UNCHANGED <<bN, bI, bSet, bLog>>


BatchNext == BatchOk \/ BatchFail \/ BatchReturn

(* ----------------------- strings and numbers --------------------------- *)
\* the value NaN of parseInt; no cookie field of the model parses to this number
NaN == -999999

IsDigit(c) == \E i \in 1..10 : SubSeq("0123456789", i, i) = c
DigitVal(c) == (CHOOSE i \in 1..10 : SubSeq("0123456789", i, i) = c) - 1

RECURSIVE ParseDigits(_, _)
ParseDigits(s, acc) ==
  IF s = "" \/ ~IsDigit(Head(s)) THEN acc
  ELSE ParseDigits(Tail(s), acc * 10 + DigitVal(Head(s)))

\* parseInt(s, 10): leading blanks, an optional sign, then the longest digit prefix
RECURSIVE ParseInt(_)
ParseInt(s) ==
  IF s = "" THEN NaN
  ELSE IF Head(s) = " " THEN ParseInt(Tail(s))
  ELSE IF Head(s) = "-"
    THEN IF Len(s) >= 2 /\ IsDigit(SubSeq(s, 2, 2)) THEN 0 - ParseDigits(Tail(s), 0) ELSE NaN
  ELSE IF IsDigit(Head(s)) THEN ParseDigits(s, 0)
  ELSE NaN

\* a > b and a < b of JavaScript numbers: false as soon as one side is NaN
Gt(a, b) == a # NaN /\ b # NaN /\ a > b
Lt(a, b) == a # NaN /\ b # NaN /\ a < b

\* String.prototype.trim, for blanks
RECURSIVE TrimLeft(_)
TrimLeft(s) == IF s # "" /\ Head(s) = " " THEN TrimLeft(Tail(s)) ELSE s
RECURSIVE TrimRight(_)
TrimRight(s) ==
  IF s # "" /\ SubSeq(s, Len(s), Len(s)) = " " THEN TrimRight(SubSeq(s, 1, Len(s) - 1)) ELSE s
Trim(s) == TrimRight(TrimLeft(s))

(* --------------------- the expiry filter passes ------------------------ *)
\* a cookie line after line.split("\t"): the sequence of its fields
CookieLine(dom, exp, val) == <<dom, "TRUE", "/", "FALSE", exp, "sid", val>>
ShortLine(dom, exp) == <<dom, "TRUE", "/", "FALSE", exp, "sid">>

ExpiryFields == {"0", "1", "2", "3", "4", "abc"}

FilterLineChoices ==
  {CookieLine("example.com", e, "v") : e \in ExpiryFields}
    \cup {ShortLine("example.com", "0"), CookieLine("example.com", "0", " ")}

\* v3: const isValid = (expiry > now || expiry === 0)
isValid(expiry, now) == Gt(expiry, now) \/ expiry = 0

\* v2: isCookieExpired(cookieLine), with the value Date.now() has when it runs
isCookieExpired(parts, now) ==
  IF Len(parts) < 7 THEN TRUE
  ELSE LET expiry == ParseInt(parts[5]) IN expiry # 0 /\ Lt(expiry, now)

LogEntry(parts, now, valid) == [parts |-> parts, now |-> now, valid |-> valid]

FilterInit ==
  /\ clock = 1
  /\ fPass \in {"processCookieFile", "parseNetscapeCookies", "validateSessions"}
  /\ fLines \in UNION {[1..n -> FilterLineChoices] : n \in 1..MaxLines}
  /\ fPos = 0
  /\ fNow = 0
  /\ fLog = <<>>
  /\ fKept = <<>>

FilterIdle ==
  /\ clock = 1
  /\ fPass = "none"
  /\ fLines = <<>>
  /\ fPos = 0
  /\ fNow = 0
  /\ fLog = <<>>
  /\ fKept = <<>>

\* the wall clock advances between two iterations of a pass
Tick ==
  /\ fPass # "none"
  /\ clock < MaxClock
  /\ clock' = clock + 1
  /\ UNCHANGED <<fPass, fLines, fPos, fNow, fLog, fKept>>
  /\ UNCHANGED offFilter

\* the effect of one loop iteration that decided "valid" for the line at fPos + 1
FilterStep(now, valid) ==
  /\ fLog' = Append(fLog, LogEntry(fLines[fPos + 1], now, valid))
  /\ fKept' = IF valid THEN Append(fKept, fLines[fPos + 1]) ELSE fKept
  /\ fPos' = fPos + 1
  /\ UNCHANGED <<clock, fPass, fLines, fNow>>

\* v3 discovery: one iteration of the line loop of processCookieFile
processCookieFile_Line ==
  /\ fPass = "processCookieFile" /\ fPos < Len(fLines)
  /\ LET parts == fLines[fPos + 1]
         now == clock
     IN FilterStep(now, Len(parts) >= 7 /\ isValid(ParseInt(parts[5]), now))
  /\ UNCHANGED offFilter

\* v3: the prepared file written from the kept lines is read back at injection
\* time; readAndValidateCookies takes "now" once, before its loop
V3_PrepareToInject ==
  /\ fPass = "processCookieFile" /\ fPos = Len(fLines)
  /\ fPass' = "readAndValidateCookies"
  /\ fLines' = fKept
  /\ fNow' = clock
  /\ fPos' = 0 /\ fLog' = <<>> /\ fKept' = <<>>
  /\ UNCHANGED clock
  /\ UNCHANGED offFilter

\* v3 injection: one iteration of the line loop of readAndValidateCookies
readAndValidateCookies_Line ==
  /\ fPass = "readAndValidateCookies" /\ fPos < Len(fLines)
  /\ LET parts == fLines[fPos + 1]
     IN FilterStep(fNow, Len(parts) >= 7 /\ isValid(ParseInt(parts[5]), fNow))
  /\ UNCHANGED offFilter

\* parts[0].replace(/^\./, "")
StripLeadingDot(s) == IF s # "" /\ Head(s) = "." THEN Tail(s) ELSE s

\* v2 loading: one iteration of the line loop of parseNetscapeCookies
parseNetscapeCookies_Line ==
  /\ fPass = "parseNetscapeCookies" /\ fPos < Len(fLines)
  /\ LET parts == fLines[fPos + 1]
     IN FilterStep(clock, /\ Len(parts) >= 7
                          /\ StripLeadingDot(parts[1]) # ""
                          /\ ~isCookieExpired(parts, clock))
  /\ UNCHANGED offFilter

\* v2: the lines kept at load time are handed to setCookiesWithTiming later
V2_PrepareToInject ==
  /\ fPass = "parseNetscapeCookies" /\ fPos = Len(fLines)
  /\ fPass' = "setCookiesWithTiming"
  /\ fLines' = fKept
  /\ fPos' = 0 /\ fLog' = <<>> /\ fKept' = <<>>
  /\ UNCHANGED <<clock, fNow>>
  /\ UNCHANGED offFilter

\* v2 injection: one iteration of the preparation loop of setCookiesWithTiming
setCookiesWithTiming_Prepare ==
  /\ fPass = "setCookiesWithTiming" /\ fPos < Len(fLines)
  /\ LET parts == fLines[fPos + 1]
     IN FilterStep(clock, /\ Len(parts) >= 7
                          /\ Trim(parts[6]) # ""
                          /\ Trim(parts[7]) # "")
  /\ UNCHANGED offFilter

\* session_validator.js: one iteration of the cookie loading loop
validateSessions_Load ==
  /\ fPass = "validateSessions" /\ fPos < Len(fLines)
  /\ LET parts == fLines[fPos + 1]
     IN FilterStep(clock, /\ Len(parts) >= 7
                          /\ Trim(parts[6]) # ""
                          /\ Trim(parts[7]) # ""
                          /\ Trim(parts[1]) # "")
  /\ UNCHANGED offFilter

FilterNext ==
  \/ Tick \/ processCookieFile_Line \/ V3_PrepareToInject \/ readAndValidateCookies_Line
  \/ parseNetscapeCookies_Line \/ V2_PrepareToInject \/ setCookiesWithTiming_Prepare
  \/ validateSessions_Load

(* ------------------ discovery: CookieIntelligenceSystem ---------------- *)
InStr(c, s) == \E i \in 1..Len(s) : SubSeq(s, i, i) = c
LowerLetters == "abcdefghijklmnopqrstuvwxyz"
UpperLetters == "ABCDEFGHIJKLMNOPQRSTUVWXYZ"

CharsOf(s) == {SubSeq(s, i, i) : i \in 1..Len(s)}
UpperSet == CharsOf(UpperLetters)
LowerOf ==
  [c \in UpperSet |->
     LET i == CHOOSE j \in 1..26 : SubSeq(UpperLetters, j, j) = c
     IN SubSeq(LowerLetters, i, i)]

\* the character class [\w.-]
WordDotDash == CharsOf(LowerLetters) \cup UpperSet \cup CharsOf("0123456789_.-")
IsWordDotDash(c) == c \in WordDotDash

LowerChar(c) == IF c \in UpperSet THEN LowerOf[c] ELSE c

\* String.prototype.toLowerCase
RECURSIVE ToLower(_)
ToLower(s) == IF s = "" THEN "" ELSE LowerChar(Head(s)) \o ToLower(Tail(s))

StartsWith(s, p) == Len(s) >= Len(p) /\ SubSeq(s, 1, Len(p)) = p
\* String.prototype.includes
Includes(s, p) == \E i \in 1..(Len(s) - Len(p) + 1) : SubSeq(s, i, i + Len(p) - 1) = p

\* an insertion-ordered Map: a sequence of [key, val], val a sequence
MapHas(m, k) == \E i \in 1..Len(m) : m[i].key = k
MapIndex(m, k) == CHOOSE i \in 1..Len(m) : m[i].key = k
MapGet(m, k) == IF MapHas(m, k) THEN m[MapIndex(m, k)].val ELSE <<>>
MapEnsure(m, k) == IF MapHas(m, k) THEN m ELSE Append(m, [key |-> k, val |-> <<>>])
MapPush(m, k, x) ==
  LET m1 == MapEnsure(m, k) IN [m1 EXCEPT ![MapIndex(m1, k)].val = Append(@, x)]
MapKeys(m) == {m[i].key : i \in 1..Len(m)}

\* "Store in main data structure": one group per domain of the file's local map
RECURSIVE StoreGroups(_, _, _)
StoreGroups(main, dm, i) ==
  IF i > Len(dm) THEN main
  ELSE StoreGroups(MapPush(main, dm[i].key, dm[i].val), dm, i + 1)

\* parts[0].replace(/^[^\w.-]/, "")
CookieDomain(s) == IF s # "" /\ ~IsWordDotDash(Head(s)) THEN Tail(s) ELSE s

\* the line loop of processCookieFile: the file's domainCookies map
RECURSIVE CookieFold(_, _, _, _)
CookieFold(lines, i, dm, now) ==
  IF i > Len(lines) THEN dm
  ELSE LET parts == lines[i] IN
    IF Len(parts) < 7 THEN CookieFold(lines, i + 1, dm, now)
    ELSE LET domain == CookieDomain(parts[1])
             dm1 == MapEnsure(dm, domain)
             dm2 == IF isValid(ParseInt(parts[5]), now) THEN MapPush(dm1, domain, parts)
                    ELSE dm1
         IN CookieFold(lines, i + 1, dm2, now)

\* the characters of s before the first one of stop
RECURSIVE UpTo(_, _)
UpTo(s, stop) ==
  IF s = "" \/ InStr(Head(s), stop) THEN "" ELSE Head(s) \o UpTo(Tail(s), stop)

\* new URL(url) accepts the URLs of the model that have an http(s) scheme and a host
AfterScheme(u) ==
  IF StartsWith(u, "http://") THEN SubSeq(u, 8, Len(u))
  ELSE IF StartsWith(u, "https://") THEN SubSeq(u, 9, Len(u))
  ELSE ""
\* new URL(url).hostname: the host, lowercased; "" stands for the TypeError
Hostname(u) == ToLower(UpTo(AfterScheme(u), "/?#"))

\* hostname.replace(/^www[^\w.-]/, "")
StripWww(h) ==
  IF Len(h) >= 4 /\ SubSeq(h, 1, 3) = "www" /\ ~IsWordDotDash(SubSeq(h, 4, 4))
  THEN SubSeq(h, 5, Len(h)) ELSE h

\* a line's URL is used when it starts with "http" and new URL does not throw
UrlAccepted(u) == StartsWith(u, "http") /\ Hostname(u) # ""

\* parseInt(parts[2]) || 1
VisitCount(parts) ==
  LET n == IF Len(parts) >= 3 THEN ParseInt(parts[3]) ELSE NaN
  IN IF n = NaN \/ n = 0 THEN 1 ELSE n

\* the line loops of processHistoryFile / processPasswordFile / processAutofillFile;
\* minLen is the number of fields the line needs, at the position of the URL
RECURSIVE UrlFold(_, _, _, _, _)
UrlFold(lines, i, dm, minLen, urlAt) ==
  IF i > Len(lines) THEN dm
  ELSE LET parts == lines[i] IN
    IF Len(parts) < minLen \/ ~UrlAccepted(parts[urlAt])
    THEN UrlFold(lines, i + 1, dm, minLen, urlAt)
    ELSE LET domain == StripWww(Hostname(parts[urlAt]))
             entry == [url |-> parts[urlAt], visitCount |-> VisitCount(parts)]
         IN UrlFold(lines, i + 1, MapPush(dm, domain, entry), minLen, urlAt)

ScanHead(type) ==
  /\ dPc = "scan" /\ scanPos < Len(scanQueue)
  /\ scanQueue[scanPos + 1].type = type

processCookieFile ==
  /\ ScanHead("cookies")
  /\ cookies' = StoreGroups(cookies, CookieFold(scanQueue[scanPos + 1].lines, 1, <<>>, clock), 1)
  /\ scanPos' = scanPos + 1
  /\ UNCHANGED <<scanQueue, history, passwords, autofills, crossReferences, savedDomains, dPc>>
  /\ UNCHANGED offDisc

processHistoryFile ==
  /\ ScanHead("history")
  /\ history' = StoreGroups(history, UrlFold(scanQueue[scanPos + 1].lines, 1, <<>>, 1, 1), 1)
  /\ scanPos' = scanPos + 1
  /\ UNCHANGED <<scanQueue, cookies, passwords, autofills, crossReferences, savedDomains, dPc>>
  /\ UNCHANGED offDisc

processPasswordFile ==
  /\ ScanHead("password")
  /\ passwords' = StoreGroups(passwords, UrlFold(scanQueue[scanPos + 1].lines, 1, <<>>, 3, 1), 1)
  /\ scanPos' = scanPos + 1
  /\ UNCHANGED <<scanQueue, cookies, history, autofills, crossReferences, savedDomains, dPc>>
  /\ UNCHANGED offDisc

processAutofillFile ==
  /\ ScanHead("autofill")
  /\ autofills' = StoreGroups(autofills, UrlFold(scanQueue[scanPos + 1].lines, 1, <<>>, 3, 3), 1)
  /\ scanPos' = scanPos + 1
  /\ UNCHANGED <<scanQueue, cookies, history, passwords, crossReferences, savedDomains, dPc>>
  /\ UNCHANGED offDisc

\* CONFIG.detection.highValueDomains
highValueDomains ==
  {"vancity.com", "td.com", "rbc.com", "bmo.com", "scotiabank.com",
   "americanexpress.com", "capitalone.com", "visa.com", "mastercard.com",
   "gmail.com", "google.com", "outlook.com", "hotmail.com",
   "linkedin.com", "facebook.com", "twitter.com", "x.com",
   "paypal.com", "amazon.com", "walmart.com", "costco.ca"}

authPatterns ==
  {"/dashboard", "/profile", "/account", "/settings", "/my-account",
   "/home", "/feed", "/inbox", "/messages", "/notifications",
   "/balance", "/transactions", "/statements", "/portfolio",
   "/admin", "/user", "/member", "/secure", "/private"}

\* authPatterns.some(pattern => url.toLowerCase().includes(pattern))
isAuthenticatedUrl(u) == LET lower == ToLower(u) IN \E p \in authPatterns : Includes(lower, p)

\* Array.prototype.sort with (a, b) => b.k - a.k: stable, descending in k
InsertDesc(s, x) ==
  LET n == Cardinality({i \in 1..Len(s) : s[i].k >= x.k})
  IN SubSeq(s, 1, n) \o <<x>> \o SubSeq(s, n + 1, Len(s))
RECURSIVE SortDescFrom(_, _, _)
SortDescFrom(s, i, acc) ==
  IF i > Len(s) THEN acc ELSE SortDescFrom(s, i + 1, InsertDesc(acc, s[i]))
SortDesc(s) == SortDescFrom(s, 1, <<>>)

\* slice(0, n)
Slice(s, n) == SubSeq(s, 1, Min(n, Len(s)))

\* all the items of the groups stored under one domain
RECURSIVE Flatten(_)
Flatten(groups) == IF groups = <<>> THEN <<>> ELSE Head(groups) \o Flatten(Tail(groups))

\* new Set([...]): the keys in order of first appearance
RECURSIVE Dedup(_, _)
Dedup(s, acc) ==
  IF s = <<>> THEN acc
  ELSE Dedup(Tail(s), IF \E i \in 1..Len(acc) : acc[i] = Head(s) THEN acc
                      ELSE Append(acc, Head(s)))
KeySeq(m) == [i \in 1..Len(m) |-> m[i].key]
AllDomains(c, h, p, a) == Dedup(KeySeq(c) \o KeySeq(h) \o KeySeq(p) \o KeySeq(a), <<>>)

AuthenticatedEndpoints_Unsorted(entries) ==
  Slice(SelectSeq(entries, LAMBDA e : isAuthenticatedUrl(e.url)), 5)

\* authenticatedUrls.sort((a, b) => b.visitCount - a.visitCount).slice(0, 5)
AuthenticatedEndpoints(entries) ==
  LET authenticatedUrls == SelectSeq(entries, LAMBDA e : isAuthenticatedUrl(e.url))
      keyed == [i \in 1..Len(authenticatedUrls) |->
                  [k |-> authenticatedUrls[i].visitCount, v |-> authenticatedUrls[i]]]
      top == Slice(SortDesc(keyed), 5)
  IN [i \in 1..Len(top) |-> top[i].v]

Score_Unclamped(hasCookies, hasHistory, hasPasswords, hasAutofills, highValue, endpoints) ==
  (IF hasCookies THEN 40 ELSE 0) + (IF hasHistory THEN 20 ELSE 0)
  + (IF hasPasswords THEN 25 ELSE 0) + (IF hasAutofills THEN 15 ELSE 0)
  + (IF highValue THEN 20 ELSE 0) + (IF endpoints > 0 THEN 30 ELSE 0)

\* the score of analyzeDiscoveredData
Score(hasCookies, hasHistory, hasPasswords, hasAutofills, highValue, endpoints) ==
  Min((IF hasCookies THEN 40 ELSE 0) + (IF hasHistory THEN 20 ELSE 0)
      + (IF hasPasswords THEN 25 ELSE 0) + (IF hasAutofills THEN 15 ELSE 0)
      + (IF highValue THEN 20 ELSE 0) + (IF endpoints > 0 THEN 30 ELSE 0), 100)

\* domainData of one domain
DomainProfile(domain, c, h, p, a) ==
  LET endpoints == AuthenticatedEndpoints(Flatten(MapGet(h, domain)))
  IN [domain |-> domain,
      hasCookies |-> MapHas(c, domain),
      hasHistory |-> MapHas(h, domain),
      hasPasswords |-> MapHas(p, domain),
      hasAutofills |-> MapHas(a, domain),
      totalCookies |-> Len(Flatten(MapGet(c, domain))),
      totalHistoryEntries |-> Len(Flatten(MapGet(h, domain))),
      totalPasswords |-> Len(Flatten(MapGet(p, domain))),
      totalAutofills |-> Len(Flatten(MapGet(a, domain))),
      authenticatedEndpoints |-> endpoints,
      highValue |-> domain \in highValueDomains,
      crossReferenceScore |->
        Score(MapHas(c, domain), MapHas(h, domain), MapHas(p, domain), MapHas(a, domain),
              domain \in highValueDomains, Len(endpoints))]

\* crossReferencedData, as the sequence of its values in insertion order
Analyze(c, h, p, a) ==
  LET all == AllDomains(c, h, p, a)
  IN [i \in 1..Len(all) |-> DomainProfile(all[i], c, h, p, a)]

analyzeDiscoveredData_DropsAutofillKeys ==
  /\ dPc = "scan" /\ scanPos = Len(scanQueue)
  /\ crossReferences' = Analyze(cookies, history, passwords, <<>>)
  /\ dPc' = "analyzed"
  /\ UNCHANGED <<scanQueue, scanPos, cookies, history, passwords, autofills, savedDomains>>
  /\ UNCHANGED offDisc

analyzeDiscoveredData ==
  /\ dPc = "scan" /\ scanPos = Len(scanQueue)
  /\ crossReferences' = Analyze(cookies, history, passwords, autofills)
  /\ dPc' = "analyzed"
  /\ UNCHANGED <<scanQueue, scanPos, cookies, history, passwords, autofills, savedDomains>>
  /\ UNCHANGED offDisc

analyzeDiscoveredData_Again_Accumulates ==
  /\ dPc = "analyzed"
  /\ crossReferences' = crossReferences \o Analyze(cookies, history, passwords, autofills)
  /\ dPc' = "reanalyzed"
  /\ UNCHANGED <<scanQueue, scanPos, cookies, history, passwords, autofills, savedDomains>>
  /\ UNCHANGED offDisc

\* a second call of analyzeDiscoveredData on the same discoveredData: it fills a
\* new Map and assigns it to discoveredData.crossReferences
analyzeDiscoveredData_Again ==
  /\ dPc = "analyzed"
  /\ crossReferences' = Analyze(cookies, history, passwords, autofills)
  /\ dPc' = "reanalyzed"
  /\ UNCHANGED <<scanQueue, scanPos, cookies, history, passwords, autofills, savedDomains>>
  /\ UNCHANGED offDisc

ReanalysisNext ==
  \/ processCookieFile \/ processHistoryFile \/ processPasswordFile \/ processAutofillFile
  \/ analyzeDiscoveredData \/ analyzeDiscoveredData_Again

\* Array.from(crossReferences.values()).sort((a, b) => b.score - a.score)
SortedDomains(refs) ==
  LET keyed == [i \in 1..Len(refs) |-> [k |-> refs[i].crossReferenceScore, v |-> refs[i]]]
      sorted == SortDesc(keyed)
  IN [i \in 1..Len(sorted) |-> sorted[i].v]

\* allCookies of saveWorkableData: the groups of a domain, concatenated
allCookies(domain) == Flatten(MapGet(cookies, domain))

SavedEntry(d) ==
  [domain |-> d.domain, score |-> d.crossReferenceScore, cookies |-> d.totalCookies,
   endpoints |-> Len(d.authenticatedEndpoints)]

\* the loop of saveWorkableData; writeFileSync throws for the domains of failed
saveWorkableData ==
  /\ dPc = "analyzed"
  /\ LET sortedDomains == SortedDomains(crossReferences)
         saveable == {i \in 1..Len(sortedDomains) :
                        sortedDomains[i].hasCookies /\ sortedDomains[i].totalCookies > 0}
     IN \E failed \in SUBSET saveable :
          LET written == SelectSeq([i \in 1..Len(sortedDomains) |-> i],
                                   LAMBDA i : i \in saveable \ failed)
          IN savedDomains' = [j \in 1..Len(written) |-> SavedEntry(sortedDomains[written[j]])]
  /\ dPc' = "saved"
  /\ UNCHANGED <<scanQueue, scanPos, cookies, history, passwords, autofills, crossReferences>>
  /\ UNCHANGED offDisc

\* topDomains of the analysis report
topDomains == Slice(savedDomains, 20)

DiscNext ==
  \/ processCookieFile \/ processHistoryFile \/ processPasswordFile \/ processAutofillFile
  \/ analyzeDiscoveredData \/ saveWorkableData

\* the files of a scanned directory
SeqsUpTo(S, n) == UNION {[1..k -> S] : k \in 1..n}
FilesOf(type, lineChoices, n) == {[type |-> type, lines |-> l] : l \in SeqsUpTo(lineChoices, n)}
Optional(F) == {<<>>} \cup {<<f>> : f \in F}

CookieFileLines ==
  {CookieLine("example.com", "2", "v"), CookieLine("paypal.com", "0", "v"),
   CookieLine(".Example.com", "1", "v")}
HistoryFileLines ==
  {<<"https://www.example.com/account", "Account", "3">>,
   <<"https://paypal.com/home", "Home", "x">>,
   <<"https://example.com/about">>}
PasswordFileLines ==
  {<<"https://paypal.com/login", "user", "secret">>,
   <<"https://shop.example.org/login", "user", "secret">>}
AutofillFile ==
  [type |-> "autofill",
   lines |-> <<<<"email", "a@b.c", "ftp://files.example.com/">>,
               <<"email", "a@b.c", "https://paypal.com/signup">>>>]

ScanQueues ==
  {c \o h \o p \o a :
     c \in Optional(FilesOf("cookies", CookieFileLines, MaxFileLines)),
     h \in Optional(FilesOf("history", HistoryFileLines, MaxHistoryLines)),
     p \in Optional(FilesOf("password", PasswordFileLines, 1)),
     a \in Optional({AutofillFile})}

DiscStart ==
  /\ scanPos = 0
  /\ cookies = <<>> /\ history = <<>> /\ passwords = <<>> /\ autofills = <<>>
  /\ crossReferences = <<>>
  /\ savedDomains = <<>>

DiscInit ==
  /\ scanQueue \in ScanQueues
  /\ dPc = "scan"
  /\ DiscStart

DiscIdle ==
  /\ scanQueue = <<>>
  /\ dPc = "idle"
  /\ DiscStart

\* a directory with one history file of visits to one domain
EndpointLines ==
  {<<"http://a.io/home", "t", "1">>, <<"http://a.io/home", "t", "2">>,
   <<"http://a.io/faq", "t", "2">>}

EndpointsInit ==
  /\ scanQueue \in {<<[type |-> "history", lines |-> l]>> :
                      l \in UNION {[1..n -> EndpointLines] :
                                     n \in (MaxEndpointLines - 1)..MaxEndpointLines}}
  /\ dPc = "scan"
  /\ DiscStart

EndpointsNext == processHistoryFile \/ analyzeDiscoveredData

(* ------------------- one call of isAuthenticatedUrl -------------------- *)
UrlHosts == {"example.com", "user.example.com"}
UrlPaths ==
  {"", "/", "/user", "/USER", "/users-guide", "/homepage", "/home/", "/a/profile",
   "/a/profiles", "/about", "/admin.php", "/docs/private"}
UrlQueries == {"", "?next=/admin", "?q=1"}
Urls == {"https://" \o h \o p \o q : h \in UrlHosts, p \in UrlPaths, q \in UrlQueries}

UrlInit == url \in Urls /\ authResult = "none"
UrlIdle == url = "" /\ authResult = "none"

isAuthenticatedUrl_Call ==
  /\ authResult = "none" /\ url # ""
  /\ authResult' = IF isAuthenticatedUrl(url) THEN "true" ELSE "false"
  /\ UNCHANGED url
  /\ UNCHANGED offUrl

UrlNext == isAuthenticatedUrl_Call

(* ------------- the parts that are idle while a run is modelled ---------- *)
NoDetection == [status |-> "none"]
NoLoginCheck == [status |-> "none"]

ClassIdle ==
  /\ pageHtml = "" /\ pageTitle = "" /\ pageUrl = ""
  /\ detection = NoDetection
  /\ loginCheck = NoLoginCheck

MaskIdle == cookieValue = "" /\ maskedValue = "none"

NoLogSummary == [domain |-> "none"]
\* sessionData.confidence before logSessionStatus; getTiming of an event not logged
Undefined == 0 - 1
Null == 0 - 1

LogStart ==
  /\ logNow = 0
  /\ events = <<>>
  /\ injectedCookies = <<>>
  /\ httpRequests = <<>>
  /\ sessionStatus = "UNKNOWN"
  /\ sessionConfidence = Undefined
  /\ sessionIndicators = {"undefined"}
  /\ logSummary = NoLogSummary
  /\ calls = <<>>

LogIdle == LogStart /\ lPc = "idle"

MixedStart ==
  /\ mixedResult = NoResult
  /\ autoResult = NoResult
  /\ manualOverride = FALSE
  /\ prompts = 0
  /\ lastAnswer = ""

MixedIdle == MixedStart /\ mode = "2" /\ mPc = "idle"

NoCounts == [loggedIn |-> 0, notLoggedIn |-> 0, unsure |-> 0, errors |-> 0]

ValStart ==
  /\ vI = 0
  /\ vBrowser = Null
  /\ vOpen = {}
  /\ vLaunches = 0
  /\ vResults = <<>>
  /\ vCounts = NoCounts

ValIdle == ValStart /\ vPc = "idle"

NotSettled == [kind |-> "pending", val |-> Undefined]

RetryStart ==
  /\ rI = 0
  /\ rLastError = Undefined
  /\ rAttempts = <<>>
  /\ rWaits = <<>>
  /\ rResult = NotSettled

RetryIdle == RetryStart /\ rMax = 0 /\ rPc = "idle"

DedupStart == ddPos = 0 /\ domainFiles = <<>> /\ deduped = <<>>

DedupIdle == DedupStart /\ cookieFiles = <<>> /\ ddPc = "idle"

NameIdle == discoveredDomain = "" /\ preparedFile = "" /\ testedDomain = "" /\ fnPc = "idle"

TestUrlIdle ==
  tuDomain = "" /\ tuEndpoints = <<>> /\ tuLines = <<>> /\ testUrl = "" /\ tuPc = "idle"

NoResponseData == [status |-> 0, bodySnippet |-> ""]
NotFrozen == [events |-> <<>>, request |-> NoResponseData]

NavStart ==
  /\ nClock = 0 /\ nGoto = "pending" /\ nPromise = "pending" /\ nBody = "none"
  /\ nLeft = 0 /\ nRequest = NoResponseData /\ nFrozen = NotFrozen

NavIdle ==
  /\ NavStart /\ nListener = FALSE /\ nTimer = FALSE /\ nEvents = <<>> /\ nMain = "idle"

(* ------------------------------ the run -------------------------------- *)
\* a prepared domain: its cookie lines and how many of them pass preparation.
\* v2 only tests domains with at least one parsed line (parseNetscapeCookies).
FileChoices(v) ==
  {f \in [lines : 0..MaxCookies, valid : 0..MaxCookies] :
     /\ f.valid <= f.lines
     /\ (v \in {"v2auto", "v2mixed"} => f.lines >= 1)}

RunInit ==
  /\ variant \in Variants
  /\ pc = "launch"
  /\ idx = 0
  /\ files \in [Domains -> FileChoices(variant)]
  /\ browser = "none"
  /\ pages = {}
  /\ pageSite = BLANK
  /\ jar = {}
  /\ launchLog = <<>>
  /\ trace = <<>>
  /\ results = <<>>
  /\ raised = {}
  /\ navFailed = FALSE
  /\ fallbacks = <<>>
  /\ totalInjected = 0
  /\ loginResult = NoResult
  /\ summary = NoSummary
  /\ interrupted = FALSE

BatchIdle ==
  /\ bN = 0
  /\ bI = 0
  /\ bSet = 0
  /\ bLog = <<>>
  /\ bPc = "idle"

RunIdle ==
  /\ variant = "v2auto"
  /\ pc = "idle"
  /\ idx = 0
  /\ files = [d \in Domains |-> [lines |-> 1, valid |-> 1]]
  /\ browser = "none"
  /\ pages = {}
  /\ pageSite = BLANK
  /\ jar = {}
  /\ launchLog = <<>>
  /\ trace = <<>>
  /\ results = <<>>
  /\ raised = {}
  /\ navFailed = FALSE
  /\ fallbacks = <<>>
  /\ totalInjected = 0
  /\ loginResult = NoResult
  /\ summary = NoSummary
  /\ interrupted = FALSE

Init == RunInit /\ BatchIdle /\ FilterIdle /\ DiscIdle /\ UrlIdle
  /\ ClassIdle /\ MaskIdle /\ LogIdle /\ MixedIdle /\ ValIdle /\ RetryIdle /\ DedupIdle /\ NameIdle /\ TestUrlIdle /\ NavIdle

\* results.push({domain, error, status: "ERROR", ...}) of the per-domain catch
ErrorResult(d) == [domain |-> d, kind |-> "ERROR"]
VerdictResult(d, in) == [domain |-> d, kind |-> IF in THEN "LOGGED_IN" ELSE "NOT_LOGGED_IN"]

\* the per-domain catch block: record the error and go on with the next domain
Catch ==
  /\ results' = Append(results, ErrorResult(idx))
  /\ raised' = raised \cup {idx}
  /\ pc' = "loop"

(* ---------------- v3: runAutoTestingMode / runManualTestingMode -------- *)
\* primary puppeteer.launch
V3_Launch ==
  /\ IsV3 /\ pc = "launch"
  /\ UNCHANGED offRun
  /\ launchLog' = Append(launchLog, "primary")
  /\ \/ browser' = "open" /\ pc' = "loop"
     \/ browser' = browser /\ pc' = "launch_fallback"
  /\ UNCHANGED <<variant, idx, files, pages, pageSite, jar, trace, results, raised,
                 navFailed, fallbacks, totalInjected, loginResult, summary, interrupted>>

\* fallback puppeteer.launch; a second failure propagates to main(): process.exit(1)
V3_LaunchFallback ==
  /\ IsV3 /\ pc = "launch_fallback"
  /\ UNCHANGED offRun
  /\ launchLog' = Append(launchLog, "fallback")
  /\ \/ browser' = "open" /\ pc' = "loop"
     \/ browser' = browser /\ pc' = "fatal"
  /\ UNCHANGED <<variant, idx, files, pages, pageSite, jar, trace, results, raised,
                 navFailed, fallbacks, totalInjected, loginResult, summary, interrupted>>

\* for (const cookieFile of cookieFiles): next iteration, browser.newPage()
V3_NewPage ==
  /\ IsV3 /\ pc = "loop" /\ idx < NumDomains
  /\ UNCHANGED offRun
  /\ idx' = idx + 1
  /\ trace' = <<>>
  /\ \/ /\ pages' = pages \cup {idx + 1}
        /\ pc' = "prepare"
        /\ UNCHANGED <<results, raised>>
     \/ /\ pages' = pages
        /\ results' = Append(results, ErrorResult(idx + 1))
        /\ raised' = raised \cup {idx + 1}
        /\ pc' = "loop"
  /\ UNCHANGED <<variant, files, browser, pageSite, jar, launchLog,
                 navFailed, fallbacks, totalInjected, loginResult, summary, interrupted>>

\* T-1: readAndValidateCookies; an empty list throws "No valid cookies found"
readAndValidateCookies ==
  /\ IsV3 /\ pc = "prepare"
  /\ UNCHANGED offRun
  /\ \/ /\ files[idx].valid > 0
        /\ trace' = Append(trace, "prepare")
        /\ pc' = "inject"
        /\ UNCHANGED <<results, raised>>
     \/ /\ files[idx].valid = 0
        /\ trace' = Append(trace, "prepare")
        /\ Catch
     \/ /\ trace' = trace      \* fs.readFileSync throws
        /\ Catch
  /\ UNCHANGED <<variant, idx, files, browser, pages, pageSite, jar, launchLog,
                 navFailed, fallbacks, totalInjected, loginResult, summary, interrupted>>

\* T+0: page.setCookie(...cookies)
V3_SetCookie ==
  /\ IsV3 /\ pc = "inject"
  /\ UNCHANGED offRun
  /\ trace' = Append(trace, "setCookie")
  /\ \/ /\ jar' = jar \cup {idx}
        /\ pc' = "navready"
        /\ UNCHANGED <<results, raised>>
     \/ /\ jar' = jar
        /\ Catch
  /\ UNCHANGED <<variant, idx, files, browser, pages, pageSite, launchLog,
                 navFailed, fallbacks, totalInjected, loginResult, summary, interrupted>>

\* T+1: "Navigation ready (cookies active)", injection stats, determineTestUrl
V3_NavigationReady ==
  /\ IsV3 /\ pc = "navready"
  /\ UNCHANGED offRun
  /\ trace' = Append(trace, "navready")
  /\ pc' = "goto"
  /\ UNCHANGED <<variant, idx, files, browser, pages, pageSite, jar, launchLog, results,
                 raised, navFailed, fallbacks, totalInjected, loginResult, summary,
                 interrupted>>

\* page.goto(testUrl, {waitUntil, timeout})
V3_Goto ==
  /\ IsV3 /\ pc = "goto"
  /\ UNCHANGED offRun
  /\ trace' = Append(trace, "goto")
  /\ \/ pc' = "analyze" /\ UNCHANGED <<results, raised>>
     \/ Catch
  /\ UNCHANGED <<variant, idx, files, browser, pages, pageSite, jar, launchLog,
                 navFailed, fallbacks, totalInjected, loginResult, summary, interrupted>>

\* T+2: analyzeSession (auto) or the operator's answer (manual), then results.push(result)
analyzeSession ==
  /\ IsV3 /\ pc = "analyze"
  /\ UNCHANGED offRun
  /\ trace' = Append(trace, "capture")
  /\ \/ \E isLoggedIn \in BOOLEAN :
          /\ results' = Append(results, VerdictResult(idx, isLoggedIn))
          /\ pc' = IF isLoggedIn THEN "save" ELSE "close"
          /\ UNCHANGED raised
     \/ Catch                  \* page.content() / page.title() throws
  /\ UNCHANGED <<variant, idx, files, browser, pages, pageSite, jar, launchLog,
                 navFailed, fallbacks, totalInjected, loginResult, summary, interrupted>>

\* saveVerifiedSession / saveManualVerifiedSession and page.screenshot
V3_Save ==
  /\ IsV3 /\ pc = "save"
  /\ UNCHANGED offRun
  /\ \/ pc' = "close" /\ UNCHANGED <<results, raised>>
     \/ Catch
  /\ UNCHANGED <<variant, idx, files, browser, pages, pageSite, jar, launchLog, trace,
                 navFailed, fallbacks, totalInjected, loginResult, summary, interrupted>>

\* await page.close(), the last statement of the try block
V3_PageClose ==
  /\ IsV3 /\ pc = "close"
  /\ UNCHANGED offRun
  /\ \/ /\ pages' = pages \ {idx}
        /\ pc' = "loop"
        /\ UNCHANGED <<results, raised>>
     \/ /\ pages' = pages
        /\ Catch
  /\ UNCHANGED <<variant, idx, files, browser, pageSite, jar, launchLog, trace,
                 navFailed, fallbacks, totalInjected, loginResult, summary, interrupted>>

CountKind(rs, k) == Cardinality({i \in 1..Len(rs) : rs[i].kind = k})

\* saveTestResults (v3) / the summary of exportResults (v2)
Summarize(rs) ==
  [totalTested |-> Len(rs),
   successful |-> CountKind(rs, "LOGGED_IN"),
   failed |-> CountKind(rs, "NOT_LOGGED_IN"),
   errors |-> CountKind(rs, "ERROR")]

\* successRate of saveTestResults / printTestSummary, in tenths of a percent:
\* ((successful / (total - errors)) * 100).toFixed(1); 0 / 0 is NaN
successRate(s) ==
  LET denominator == s.totalTested - s.errors
  IN IF denominator = 0 THEN NaN
     ELSE (2000 * s.successful + denominator) \div (2 * denominator)

\* finally { if (browser) await browser.close(); }  then saveTestResults
V3_Finish ==
  /\ IsV3 /\ pc = "loop" /\ idx = NumDomains
  /\ UNCHANGED offRun
  /\ browser' = "closed"
  /\ pages' = {}
  /\ summary' = Summarize(results)
  /\ pc' = "done"
  /\ UNCHANGED <<variant, idx, files, pageSite, jar, launchLog, trace, results, raised,
                 navFailed, fallbacks, totalInjected, loginResult, interrupted>>


(* ------------------------- v2: main, modes 2 and 3 --------------------- *)
checkLoginStatus_Lenient(domainSpecificCheck, hasLoggedInKeywords, hasUserContent, hasLoginKeywords) ==
  LET confidence == (IF domainSpecificCheck THEN 40 ELSE 0)
                    + (IF hasLoggedInKeywords THEN 30 ELSE 0)
                    + (IF hasUserContent THEN 20 ELSE 0)
                    + (IF ~hasLoginKeywords THEN 10 ELSE 0)
  IN [loggedIn |-> (confidence >= 10 \/ hasLoggedInKeywords
                    \/ domainSpecificCheck \/ hasUserContent),
      confidence |-> confidence]

\* confidence and verdict of checkLoginStatus from its four page indicators
checkLoginStatus(domainSpecificCheck, hasLoggedInKeywords, hasUserContent, hasLoginKeywords) ==
  LET confidence == (IF domainSpecificCheck THEN 40 ELSE 0)
                    + (IF hasLoggedInKeywords THEN 30 ELSE 0)
                    + (IF hasUserContent THEN 20 ELSE 0)
                    + (IF ~hasLoginKeywords THEN 10 ELSE 0)
  IN [loggedIn |-> (confidence >= 20 \/ hasLoggedInKeywords
                    \/ domainSpecificCheck \/ hasUserContent),
      confidence |-> confidence]

\* the trace of one setCookiesWithTiming call over n prepared cookies
InjectionTrace(n) ==
  <<"prepare">> \o [k \in 1..NumBatches(n) |-> "setCookie"] \o <<"navready">>

\* one call of setCookiesWithTiming(page, domain, data.cookies, sessionLogger)
\* from main: every batch's page.setCookie succeeds or throws (and is skipped)
BatchOutcomes == [1..NumBatches(files[idx].valid) -> BOOLEAN]

Inject(ok) ==
  /\ totalInjected' = totalInjected + setCookiesWithTiming(files[idx].valid, ok)
  /\ jar' = IF \E k \in DOMAIN ok : ok[k] THEN jar \cup {idx} ELSE jar
  /\ raised' = IF \E k \in DOMAIN ok : ~ok[k] THEN raised \cup {idx} ELSE raised
  /\ trace' = trace \o InjectionTrace(files[idx].valid)

\* the single puppeteer.launch of main; a failure reaches the outer catch: process.exit(1)
V2_Launch ==
  /\ IsV2 /\ pc = "launch"
  /\ UNCHANGED offRun
  /\ launchLog' = Append(launchLog, "primary")
  /\ \/ browser' = "open" /\ pages' = {0} /\ pc' = "loop"
     \/ browser' = browser /\ pages' = pages /\ pc' = "fatal"
  /\ UNCHANGED <<variant, idx, files, pageSite, jar, trace, results, raised,
                 navFailed, fallbacks, totalInjected, loginResult, summary, interrupted>>

\* next domain: new SessionLogger, getTestURL, page.cookies() / page.deleteCookie
V2_StartDomain ==
  /\ IsV2 /\ pc = "loop" /\ idx < NumDomains
  /\ UNCHANGED offRun
  /\ idx' = idx + 1
  /\ trace' = <<>>
  /\ navFailed' = FALSE
  /\ fallbacks' = <<>>
  /\ totalInjected' = 0
  /\ loginResult' = NoResult
  /\ \/ /\ jar' = jar \ {pageSite}     \* the cookies of the current page URL
        /\ pc' = "v2_root"
        /\ UNCHANGED <<results, raised>>
     \/ /\ jar' = jar
        /\ results' = Append(results, ErrorResult(idx + 1))
        /\ raised' = raised \cup {idx + 1}
        /\ pc' = "loop"
  /\ UNCHANGED <<variant, files, browser, pages, pageSite, launchLog, summary, interrupted>>

\* Step 1: navigateWithLogging(page, domainRoot) "to establish context"
V2_DomainContext ==
  /\ IsV2 /\ pc = "v2_root"
  /\ UNCHANGED offRun
  /\ trace' = Append(trace, "goto")
  /\ \/ /\ pageSite' = idx
        /\ pc' = "v2_inject"
        /\ UNCHANGED <<navFailed, raised>>
     \/ /\ pageSite' \in {pageSite, idx}
        /\ navFailed' = TRUE
        /\ raised' = raised \cup {idx}
        /\ pc' = "v2_fallback"
  /\ UNCHANGED <<variant, idx, files, browser, pages, jar, launchLog, results,
                 fallbacks, totalInjected, loginResult, summary, interrupted>>

\* Step 2/3: setCookiesWithTiming, then page.cookies() to verify
V2_Inject ==
  /\ IsV2 /\ pc = "v2_inject"
  /\ UNCHANGED offRun
  /\ \E ok \in BatchOutcomes : Inject(ok)
  /\ \/ pc' = "v2_target" /\ navFailed' = navFailed
     \/ pc' = "v2_fallback" /\ navFailed' = TRUE
  /\ UNCHANGED <<variant, idx, files, browser, pages, pageSite, launchLog, results,
                 fallbacks, loginResult, summary, interrupted>>

\* Step 4: navigateWithLogging(page, testUrl)
V2_GotoTarget ==
  /\ IsV2 /\ pc = "v2_target"
  /\ UNCHANGED offRun
  /\ trace' = Append(trace, "goto")
  /\ \/ pc' = "v2_reload" /\ UNCHANGED <<navFailed, raised>>
     \/ pc' = "v2_fallback" /\ navFailed' = TRUE /\ raised' = raised \cup {idx}
  /\ UNCHANGED <<variant, idx, files, browser, pages, pageSite, jar, launchLog, results,
                 fallbacks, totalInjected, loginResult, summary, interrupted>>

\* reloadWithLogging(page) and the page.cookies() after it
V2_Reload ==
  /\ IsV2 /\ pc = "v2_reload"
  /\ UNCHANGED offRun
  /\ trace' = Append(trace, "reload")
  /\ \/ pc' = "v2_analyze" /\ UNCHANGED <<navFailed, raised>>
     \/ pc' = "v2_fallback" /\ navFailed' = TRUE /\ raised' = raised \cup {idx}
  /\ UNCHANGED <<variant, idx, files, browser, pages, pageSite, jar, launchLog, results,
                 fallbacks, totalInjected, loginResult, summary, interrupted>>

\* catch (navigationError): setCookiesWithTiming again on the current page
V2_Fallback_Throws ==
  /\ IsV2 /\ pc = "v2_fallback"
  /\ UNCHANGED offRun
  /\ \E ok \in BatchOutcomes :
       /\ Inject(ok)
       /\ fallbacks' = Append(fallbacks, \A k \in DOMAIN ok : ok[k])
       /\ IF \A k \in DOMAIN ok : ok[k]
          THEN pc' = "v2_analyze" /\ results' = results
          ELSE pc' = "loop" /\ results' = Append(results, ErrorResult(idx))
  /\ UNCHANGED <<variant, idx, files, browser, pages, pageSite, launchLog,
                 navFailed, loginResult, summary, interrupted>>

V2_Fallback ==
  /\ IsV2 /\ pc = "v2_fallback"
  /\ UNCHANGED offRun
  /\ \E ok \in BatchOutcomes :
       /\ Inject(ok)
       /\ fallbacks' = Append(fallbacks, \A k \in DOMAIN ok : ok[k])
  /\ pc' = "v2_analyze"
  /\ UNCHANGED <<variant, idx, files, browser, pages, pageSite, launchLog, results,
                 navFailed, loginResult, summary, interrupted>>

MixedOverride_KeepsConfidence(r, answer) ==
  IF answer = "s" THEN r ELSE [loggedIn |-> (answer = "y"), confidence |-> r.confidence]

\* mode 3: the operator's answer overrides an uncertain automatic result
MixedOverride(r, answer) ==
  IF answer = "s" THEN r ELSE [loggedIn |-> (answer = "y"), confidence |-> 100]

\* Step 5: checkLoginStatus (its catch turns a capture failure into loggedIn: false),
\* the mode 3 prompt, logSessionStatus and results.push(result)
V2_CheckLogin ==
  /\ IsV2 /\ pc = "v2_analyze"
  /\ UNCHANGED offRun
  /\ trace' = Append(trace, "capture")
  /\ \E auto \in {checkLoginStatus(a, b, c, d) : a, b, c, d \in BOOLEAN} \cup {NoResult},
        captured \in BOOLEAN, answer \in {"y", "n", "s"} :
       /\ ~captured => auto = NoResult
       /\ raised' = IF captured THEN raised ELSE raised \cup {idx}
       /\ loginResult' = IF variant = "v2mixed" /\ auto.confidence < MIXED_THRESHOLD
                         THEN MixedOverride(auto, answer)
                         ELSE auto
  /\ results' = Append(results, VerdictResult(idx, loginResult'.loggedIn))
  /\ pc' = "v2_save"
  /\ UNCHANGED <<variant, idx, files, browser, pages, pageSite, jar, launchLog,
                 navFailed, fallbacks, totalInjected, summary, interrupted>>

\* writeNetscapeCookieFile / session log writeFile / screenshot after the push
V2_Save ==
  /\ IsV2 /\ pc = "v2_save"
  /\ UNCHANGED offRun
  /\ \/ pc' = "loop" /\ UNCHANGED <<results, raised>>
     \/ Catch
  /\ UNCHANGED <<variant, idx, files, browser, pages, pageSite, jar, launchLog, trace,
                 navFailed, fallbacks, totalInjected, loginResult, summary, interrupted>>

\* after the loop: page.close(), the summary, exportResults, finally browser.close()
V2_Finish ==
  /\ IsV2 /\ pc = "loop" /\ idx = NumDomains
  /\ UNCHANGED offRun
  /\ browser' = "closed"
  /\ pages' = {}
  /\ summary' = Summarize(results)
  /\ pc' = "done"
  /\ UNCHANGED <<variant, idx, files, pageSite, jar, launchLog, trace, results, raised,
                 navFailed, fallbacks, totalInjected, loginResult, interrupted>>

(* ------------------- main: the mode 2 / mode 3 decision ----------------- *)
\* what checkLoginStatus can return, its catch included
AutoResults == {checkLoginStatus(a, b, c, d) : a, b, c, d \in BOOLEAN} \cup {NoResult}

\* what the operator can type at the prompt
Answers == {"y", "Y", "n", "N", "s", "S", "x", ""}

MixedInit == MixedStart /\ mode \in {"2", "3"} /\ mPc = "check"

\* loginResult = await checkLoginStatus(page, domain); mode 3 goes on to the
\* prompt when loginResult.confidence < 70
Mixed_CheckLogin ==
  /\ mPc = "check"
  /\ \E auto \in AutoResults :
       /\ autoResult' = auto
       /\ mixedResult' = auto
       /\ mPc' = IF mode = "3" /\ auto.confidence < MIXED_THRESHOLD THEN "ask" ELSE "decided"
  /\ UNCHANGED <<mode, manualOverride, prompts, lastAnswer>>
  /\ UNCHANGED offMixed

\* one round of while (true) { answer = (await ask(...)).toLowerCase(); ... } and,
\* when the answer is accepted, the assignment after the loop
Mixed_Ask ==
  /\ mPc = "ask" /\ prompts < MaxPrompts
  /\ prompts' = prompts + 1
  /\ \E typed \in Answers :
       /\ lastAnswer' = ToLower(typed)
       /\ IF lastAnswer' \in {"y", "n", "s"}
          THEN /\ mixedResult' = MixedOverride(mixedResult, lastAnswer')
               /\ manualOverride' = (lastAnswer' # "s")
               /\ mPc' = "decided"
          ELSE UNCHANGED <<mixedResult, manualOverride, mPc>>
  /\ UNCHANGED <<mode, autoResult>>
  /\ UNCHANGED offMixed

MixedNext == Mixed_CheckLogin \/ Mixed_Ask

(* -------------------- the page classifiers (v3, v2) -------------------- *)
\* CONFIG.detection of v3
loginKeywords ==
  <<"sign in", "log in", "login", "password", "forgot password", "enter your password",
    "authentication", "two-factor", "2fa", "create account", "register", "signin",
    "sign up">>
loggedInKeywords ==
  <<"dashboard", "profile", "settings", "account", "logout", "sign out", "welcome",
    "my account", "notifications", "messages", "balance", "transaction", "statement",
    "portfolio", "investment", "inbox", "compose", "upload", "post", "timeline", "feed">>

MatchCount_HtmlOnly(keywords, h, t, u) ==
  Cardinality({i \in 1..Len(keywords) : Includes(h, keywords[i])})

\* the keyword loops of performDetectionAnalysis: one point per keyword found in
\* the markup, the title or the URL
MatchCount(keywords, h, t, u) ==
  Cardinality({i \in 1..Len(keywords) :
                 Includes(h, keywords[i]) \/ Includes(t, keywords[i]) \/ Includes(u, keywords[i])})

Confidence_Floor(loggedInScore, loginScore) ==
  (1000 * loggedInScore) \div (10 * (loggedInScore + loginScore) + 1)

\* Math.round((loggedInScore / (loggedInScore + loginScore + 0.1)) * 100)
Confidence(loggedInScore, loginScore) ==
  (2000 * loggedInScore + 10 * (loggedInScore + loginScore) + 1)
    \div (2 * (10 * (loggedInScore + loginScore) + 1))

performDetectionAnalysis(html, title, url_) ==
  LET htmlLower == ToLower(html)
      titleLower == ToLower(title)
      urlLower == ToLower(url_)
      hasLogoutButton == Includes(htmlLower, "logout") \/ Includes(htmlLower, "sign out")
      hasWelcomeMessage == Includes(htmlLower, "welcome") \/ Includes(htmlLower, "hello")
      hasPersonalInfo == Includes(htmlLower, "profile") \/ Includes(htmlLower, "account")
      hasAuthenticatedContent ==
        Includes(htmlLower, "dashboard") \/ Includes(htmlLower, "inbox")
      loggedInScore ==
        MatchCount(loggedInKeywords, htmlLower, titleLower, urlLower)
        + (IF hasLogoutButton THEN 3 ELSE 0) + (IF hasWelcomeMessage THEN 2 ELSE 0)
        + (IF hasPersonalInfo THEN 2 ELSE 0) + (IF hasAuthenticatedContent THEN 3 ELSE 0)
      loginScore == MatchCount(loginKeywords, htmlLower, titleLower, urlLower)
      confidence == Confidence(loggedInScore, loginScore)
      isLoggedIn == confidence >= 60
  IN [loggedInScore |-> loggedInScore,
      loginScore |-> loginScore,
      confidence |-> confidence,
      isLoggedIn |-> isLoggedIn,
      status |-> IF isLoggedIn THEN "LOGGED_IN" ELSE "NOT_LOGGED_IN",
      indicators |-> [hasLogoutButton |-> hasLogoutButton,
                      hasWelcomeMessage |-> hasWelcomeMessage,
                      hasPersonalInfo |-> hasPersonalInfo,
                      hasAuthenticatedContent |-> hasAuthenticatedContent]]

\* the keyword lists of v2
LOGIN_KEYWORDS ==
  <<"sign in", "log in", "login", "password", "forgot password", "enter your password",
    "authentication", "two-factor", "2fa", "create account", "register", "signin",
    "log out", "logout", "welcome back", "sign up", "verify">>
LOGGED_IN_KEYWORDS ==
  <<"dashboard", "profile", "settings", "account", "logout", "sign out", "welcome",
    "my account", "notifications", "messages", "feed", "timeline", "inbox", "compose",
    "upload", "post">>

\* KEYWORDS.some(kw => lower.includes(kw))
SomeIncluded(keywords, lower) == \E i \in 1..Len(keywords) : Includes(lower, keywords[i])

\* the domain-specific checks of checkLoginStatus
domainSpecificCheck(domain, lower) ==
  IF Includes(domain, "google")
  THEN Includes(lower, "manage your google account") \/ Includes(lower, "myaccount.google.com")
  ELSE IF Includes(domain, "facebook")
  THEN Includes(lower, "news feed") \/ Includes(lower, "what's on your mind")
  ELSE IF Includes(domain, "linkedin")
  THEN Includes(lower, "linkedin feed") \/ Includes(lower, "start a post")
  ELSE IF Includes(domain, "twitter") \/ Includes(domain, "x.com")
  THEN Includes(lower, "home timeline") \/ Includes(lower, "what is happening")
  ELSE FALSE

userIndicators == <<"welcome", "hello", "hi ", "dear", "@">>
Letters == CharsOf(LowerLetters) \cup UpperSet

\* new RegExp(indicator + "\\s+[a-zA-Z]{2,}", "i").test(html), on the lower-cased html
RegexAt(lower, indicator, i) ==
  LET n == Len(indicator)
  IN /\ i + n - 1 <= Len(lower)
     /\ SubSeq(lower, i, i + n - 1) = indicator
     /\ \E k \in 1..(Len(lower) - (i + n - 1)) :
          /\ \A j \in 1..k : SubSeq(lower, i + n - 1 + j, i + n - 1 + j) = " "
          /\ i + n + k + 1 <= Len(lower)
          /\ SubSeq(lower, i + n + k, i + n + k) \in Letters
          /\ SubSeq(lower, i + n + k + 1, i + n + k + 1) \in Letters

hasUserContent(lower) ==
  \E x \in 1..Len(userIndicators) : \E i \in 1..Len(lower) : RegexAt(lower, userIndicators[x], i)

\* checkLoginStatus on the markup of a page
checkLoginStatus_Page(html, domain) ==
  LET lower == ToLower(html)
  IN checkLoginStatus(domainSpecificCheck(domain, lower),
                      SomeIncluded(LOGGED_IN_KEYWORDS, lower),
                      hasUserContent(lower),
                      SomeIncluded(LOGIN_KEYWORDS, lower))

\* the domains the v2 classifier is called for
ClassifyDomains == {"a.io", "mail.google.com"}

\* analyzeSession's call of the v3 classifier on the captured page
performDetectionAnalysis_Call ==
  /\ pageUrl # "" /\ detection = NoDetection
  /\ detection' = performDetectionAnalysis(pageHtml, pageTitle, pageUrl)
  /\ UNCHANGED <<pageHtml, pageTitle, pageUrl, loginCheck>>
  /\ UNCHANGED offClass

\* main's call of the v2 classifier on the same page
checkLoginStatus_Call ==
  /\ pageUrl # "" /\ loginCheck = NoLoginCheck
  /\ \E domain \in ClassifyDomains :
       loginCheck' = checkLoginStatus_Page(pageHtml, domain)
  /\ UNCHANGED <<pageHtml, pageTitle, pageUrl, detection>>
  /\ UNCHANGED offClass

ClassifyNext == performDetectionAnalysis_Call \/ checkLoginStatus_Call

\* the pages: markup made of at most MaxSnippets of the snippets, in their order
HtmlSnippets == <<"Logout ", "Dashboard ", "hello ", "Sign in ", "password ", "Bob ">>
RECURSIVE JoinChosen(_, _)
JoinChosen(chosen, i) ==
  IF i > Len(HtmlSnippets) THEN ""
  ELSE (IF i \in chosen THEN HtmlSnippets[i] ELSE "") \o JoinChosen(chosen, i + 1)
Htmls ==
  {JoinChosen(chosen, 1) :
     chosen \in {c \in SUBSET (1..Len(HtmlSnippets)) : Cardinality(c) <= MaxSnippets}}
Titles == {"", "Login"}
PageUrls == {"https://a.io/", "https://a.io/Inbox"}

ClassifyInit ==
  /\ pageHtml \in Htmls /\ pageTitle \in Titles /\ pageUrl \in PageUrls
  /\ detection = NoDetection
  /\ loginCheck = NoLoginCheck

(* ----------------------- SessionLogger.maskValue ----------------------- *)
\* if (!value || value.length <= 4) return "***";
\* return value.slice(0, 4) + "***" + value.slice(-2)
maskValue(value) ==
  IF value = "" \/ Len(value) <= 4 THEN "***"
  ELSE SubSeq(value, 1, 4) \o "***" \o SubSeq(value, Len(value) - 1, Len(value))

\* the value logCookieInjection stores for a cookie
maskedCookieValue(value) == IF maskCookieValues THEN maskValue(value) ELSE value

\* the cookie values: every string of at most MaxValueLen characters of the alphabet
ValueAlphabet == {"a", "b"}
RECURSIVE ValuesOfLen(_)
ValuesOfLen(n) ==
  IF n = 0 THEN {""} ELSE {v \o c : v \in ValuesOfLen(n - 1), c \in ValueAlphabet}
CookieValues == UNION {ValuesOfLen(n) : n \in 0..MaxValueLen}

MaskInit == cookieValue \in CookieValues /\ maskedValue = "none"

\* cookies.map(cookie => ({ ..., value: maskValue(cookie.value), ... })) for one cookie
maskValue_Call ==
  /\ maskedValue = "none"
  /\ maskedValue' = maskedCookieValue(cookieValue)
  /\ UNCHANGED cookieValue
  /\ UNCHANGED offMask

MaskNext == maskValue_Call

(* ---------------------------- SessionLogger ---------------------------- *)
\* new SessionLogger(domain)
LoggerInit == LogStart /\ lPc = "open"

\* the body of logEvent: one more event, stamped with Date.now() - startTime
logEvent(event) == Append(events, [event |-> event, elapsed |-> logNow])

CanCall == lPc = "open" /\ Len(calls) < MaxCalls

\* Date.now() moves on between two calls
LogTick ==
  /\ lPc = "open" /\ logNow < MaxLogClock
  /\ logNow' = logNow + 1
  /\ UNCHANGED <<events, injectedCookies, httpRequests, sessionStatus, sessionConfidence,
                 sessionIndicators, logSummary, calls, lPc>>
  /\ UNCHANGED offLog

logEvent_Call ==
  /\ CanCall
  /\ events' = logEvent("SESSION_START")
  /\ calls' = Append(calls, [op |-> "logEvent"])
  /\ UNCHANGED <<logNow, injectedCookies, httpRequests, sessionStatus, sessionConfidence,
                 sessionIndicators, logSummary, lPc>>
  /\ UNCHANGED offLog

CookieBatches ==
  {<<[name |-> "sessionid", value |-> "abcdefgh"], [name |-> "auth_token", value |-> "xyz"]>>,
   <<[name |-> "theme", value |-> "dark"]>>}

logCookieInjection_CountsBatches ==
  /\ CanCall
  /\ \E batch \in CookieBatches :
       /\ injectedCookies' =
            Append(injectedCookies,
                   [timestamp |-> logNow,
                    cookies |-> [i \in 1..Len(batch) |->
                                   [name |-> batch[i].name,
                                    value |-> maskedCookieValue(batch[i].value)]],
                    count |-> 1])
       /\ calls' = Append(calls, [op |-> "logCookieInjection", cookies |-> batch])
  /\ events' = logEvent("COOKIE_INJECTION")
  /\ UNCHANGED <<logNow, httpRequests, sessionStatus, sessionConfidence, sessionIndicators,
                 logSummary, lPc>>
  /\ UNCHANGED offLog

logCookieInjection ==
  /\ CanCall
  /\ \E batch \in CookieBatches :
       /\ injectedCookies' =
            Append(injectedCookies,
                   [timestamp |-> logNow,
                    cookies |-> [i \in 1..Len(batch) |->
                                   [name |-> batch[i].name,
                                    value |-> maskedCookieValue(batch[i].value)]],
                    count |-> Len(batch)])
       /\ calls' = Append(calls, [op |-> "logCookieInjection", cookies |-> batch])
  /\ events' = logEvent("COOKIE_INJECTION")
  /\ UNCHANGED <<logNow, httpRequests, sessionStatus, sessionConfidence, sessionIndicators,
                 logSummary, lPc>>
  /\ UNCHANGED offLog

NoResponse == 0

\* the request is keyed by its timestamp, which is returned to the caller
logHttpRequest ==
  /\ CanCall
  /\ httpRequests' = Append(httpRequests, [timestamp |-> logNow, response |-> NoResponse])
  /\ events' = logEvent("HTTP_REQUEST")
  /\ calls' = Append(calls, [op |-> "logHttpRequest", returned |-> logNow])
  /\ UNCHANGED <<logNow, injectedCookies, sessionStatus, sessionConfidence, sessionIndicators,
                 logSummary, lPc>>
  /\ UNCHANGED offLog

\* httpRequests.find(r => r.timestamp === requestTimestamp): the first such request
FindRequest(requestTimestamp) ==
  LET hits == {i \in 1..Len(httpRequests) : httpRequests[i].timestamp = requestTimestamp}
  IN IF hits = {} THEN 0 ELSE CHOOSE i \in hits : \A j \in hits : i <= j

ReturnedTimestamps ==
  {calls[i].returned : i \in {j \in 1..Len(calls) : calls[j].op = "logHttpRequest"}}

logHttpResponse ==
  /\ CanCall
  /\ \E requestTimestamp \in ReturnedTimestamps, status \in {200, 404} :
       LET request == FindRequest(requestTimestamp)
       IN /\ httpRequests' = IF request = 0 THEN httpRequests
                             ELSE [httpRequests EXCEPT ![request].response = status]
          /\ calls' = Append(calls, [op |-> "logHttpResponse",
                                     requestTimestamp |-> requestTimestamp, status |-> status])
  /\ events' = logEvent("HTTP_RESPONSE")
  /\ UNCHANGED <<logNow, injectedCookies, sessionStatus, sessionConfidence, sessionIndicators,
                 logSummary, lPc>>
  /\ UNCHANGED offLog

StatusArguments ==
  {[status |-> "VALID_SESSION", confidence |-> 100, indicators |-> {"loggedInKeywords"}],
   [status |-> "INVALID_SESSION", confidence |-> 10, indicators |-> {}]}

logSessionStatus ==
  /\ CanCall
  /\ \E args \in StatusArguments :
       /\ sessionStatus' = args.status
       /\ sessionConfidence' = args.confidence
       /\ sessionIndicators' = args.indicators
       /\ calls' = Append(calls, [op |-> "logSessionStatus", args |-> args])
  /\ events' = logEvent("SESSION_STATUS")
  /\ UNCHANGED <<logNow, injectedCookies, httpRequests, logSummary, lPc>>
  /\ UNCHANGED offLog

isSessionCookie(cookie) ==
  LET name == ToLower(cookie.name)
  IN \/ Includes(name, "session") \/ Includes(name, "jsession")
     \/ Includes(name, "phpsession") \/ Includes(name, "asp.net_session")

isAuthCookie(cookie) ==
  LET name == ToLower(cookie.name)
  IN \/ Includes(name, "auth") \/ Includes(name, "token") \/ Includes(name, "login")
     \/ Includes(name, "user") \/ Includes(name, "jwt") \/ Includes(name, "bearer")

\* events.find(e => e.event === event): the elapsed time of the first such event
getTiming(event) ==
  LET hits == {i \in 1..Len(events) : events[i].event = event}
  IN IF hits = {} THEN Null ELSE events[CHOOSE i \in hits : \A j \in hits : i <= j].elapsed

\* array.reduce((sum, x) => sum + f(x), 0)
RECURSIVE SumSeq(_)
SumSeq(numbers) == IF numbers = <<>> THEN 0 ELSE Head(numbers) + SumSeq(Tail(numbers))
SumOver(seq, f(_)) == SumSeq([i \in 1..Len(seq) |-> f(seq[i])])

CountIn(seq, Test(_)) == Len(SelectSeq(seq, Test))

generateSummary ==
  [totalTime |-> logNow,
   timings |-> [cookieInjection |-> getTiming("COOKIE_INJECTION"),
                firstRequest |-> getTiming("HTTP_REQUEST"),
                sessionStatus |-> getTiming("SESSION_STATUS")],
   cookieStats |->
     [totalInjected |-> SumOver(injectedCookies, LAMBDA batch : batch.count),
      sessionCookies |->
        SumOver(injectedCookies, LAMBDA batch : CountIn(batch.cookies, isSessionCookie)),
      authCookies |->
        SumOver(injectedCookies, LAMBDA batch : CountIn(batch.cookies, isAuthCookie))],
   httpStats |->
     [requests |-> Len(httpRequests),
      responses |-> CountIn(httpRequests, LAMBDA r : r.response # NoResponse),
      redirects |-> CountIn(httpRequests, LAMBDA r : r.response \in {301, 302, 307, 308}),
      errors |-> CountIn(httpRequests, LAMBDA r : r.response # NoResponse /\ r.response >= 400)],
   sessionResult |-> [status |-> sessionStatus,
                      confidence |-> sessionConfidence,
                      indicators |-> sessionIndicators]]

\* const sessionSummary = sessionLogger.generateSummary()
generateSummary_Call ==
  /\ lPc = "open"
  /\ logSummary' = generateSummary
  /\ lPc' = "summarized"
  /\ UNCHANGED <<logNow, events, injectedCookies, httpRequests, sessionStatus,
                 sessionConfidence, sessionIndicators, calls>>
  /\ UNCHANGED offLog

LoggerNext ==
  \/ LogTick \/ logEvent_Call \/ logCookieInjection \/ logHttpRequest \/ logHttpResponse
  \/ logSessionStatus \/ generateSummary_Call

(* ------------------- session_validator: validateSessions ---------------- *)
\* the operator's answers to "Is this showing a logged-in session? (y/n/blocked)"
Verifications == {"y", "Yes", "n", "No", "blocked", "B", "", "maybe"}

\* manualResult from the answer: startsWith("y"), "blocked" or "b", "n", else UNSURE
manualResultOf(verification) ==
  LET v == ToLower(verification)
  IN IF StartsWith(v, "y") THEN "LOGGED_IN"
     ELSE IF StartsWith(v, "blocked") \/ StartsWith(v, "b") THEN "BLOCKED"
     ELSE IF StartsWith(v, "n") THEN "NOT_LOGGED_IN"
     ELSE "UNSURE"

ManualRecord(m) == [manualResult |-> m, error |-> ""]
\* results.push({ target, domain, testUrl, error: error.message, ... }) of the catch
ValidatorError == [manualResult |-> "undefined", error |-> "Error"]

\* the catch of one URL test
validateSessions_Catch ==
  /\ vResults' = Append(vResults, ValidatorError)
  /\ vPc' = "finally"

ValInit == ValStart /\ vPc = "loop"

\* let browser = null; browser = await puppeteer.launch({...})
validateSessions_Launch ==
  /\ vPc = "loop" /\ vI < MaxTests
  /\ UNCHANGED offVal
  /\ \/ /\ vLaunches' = vLaunches + 1
        /\ vBrowser' = vLaunches + 1
        /\ vOpen' = vOpen \cup {vLaunches + 1}
        /\ vPc' = "setCookie"
        /\ UNCHANGED vResults
     \/ /\ validateSessions_Catch
        /\ UNCHANGED <<vLaunches, vBrowser, vOpen>>
  /\ UNCHANGED <<vI, vCounts>>

\* browser.pages(), page.setCookie(...cookies): it returns, or throws into the catch
validateSessions_SetCookie ==
  /\ vPc = "setCookie"
  /\ UNCHANGED offVal
  /\ \/ vPc' = "goto" /\ UNCHANGED vResults
     \/ validateSessions_Catch
  /\ UNCHANGED <<vI, vBrowser, vOpen, vLaunches, vCounts>>

\* page.goto(testUrl), page.title(), page.content()
validateSessions_Goto ==
  /\ vPc = "goto"
  /\ UNCHANGED offVal
  /\ \/ vPc' = "screenshot" /\ UNCHANGED vResults
     \/ validateSessions_Catch
  /\ UNCHANGED <<vI, vBrowser, vOpen, vLaunches, vCounts>>

\* page.screenshot({...})
validateSessions_Screenshot ==
  /\ vPc = "screenshot"
  /\ UNCHANGED offVal
  /\ \/ vPc' = "ask" /\ UNCHANGED vResults
     \/ validateSessions_Catch
  /\ UNCHANGED <<vI, vBrowser, vOpen, vLaunches, vCounts>>

\* the automated analysis, ask(...), results.push(result)
validateSessions_Ask ==
  /\ vPc = "ask"
  /\ UNCHANGED offVal
  /\ \/ \E verification \in Verifications :
          /\ vResults' = Append(vResults, ManualRecord(manualResultOf(verification)))
          /\ vPc' = "finally"
     \/ validateSessions_Catch
  /\ UNCHANGED <<vI, vBrowser, vOpen, vLaunches, vCounts>>

CloseBrowser_Leaks(open, b) == open

\* browser.close() resolved
CloseBrowser(open, b) == open \ {b}

\* finally { if (browser) await browser.close(); }  and the 3 second pause; a
\* rejected close leaves validateSessions through its outer finally
validateSessions_Finally ==
  /\ vPc = "finally"
  /\ UNCHANGED offVal
  /\ \/ /\ vBrowser = Null
        /\ vPc' = "loop" /\ vI' = vI + 1
        /\ UNCHANGED <<vOpen, vBrowser>>
     \/ /\ vBrowser # Null
        /\ vOpen' = CloseBrowser(vOpen, vBrowser)
        /\ vBrowser' = Null
        /\ vPc' = "loop" /\ vI' = vI + 1
     \/ /\ vBrowser # Null
        /\ vOpen' \in {vOpen, CloseBrowser(vOpen, vBrowser)}
        /\ vPc' = "fatal"
        /\ UNCHANGED <<vI, vBrowser>>
  /\ UNCHANGED <<vLaunches, vResults, vCounts>>

CountManual(rs, m) == Cardinality({i \in 1..Len(rs) : rs[i].manualResult = m})

\* fs.writeFileSync(resultsPath, ...) and the four filters of the summary
validateSessions_Save ==
  /\ vPc = "loop" /\ vI = MaxTests
  /\ UNCHANGED offVal
  /\ \/ /\ vCounts' = [loggedIn |-> CountManual(vResults, "LOGGED_IN"),
                       notLoggedIn |-> CountManual(vResults, "NOT_LOGGED_IN"),
                       unsure |-> CountManual(vResults, "UNSURE"),
                       errors |-> Cardinality({i \in 1..Len(vResults) : vResults[i].error # ""})]
        /\ vPc' = "saved"
     \/ vPc' = "fatal" /\ UNCHANGED vCounts
  /\ UNCHANGED <<vI, vBrowser, vOpen, vLaunches, vResults>>

ValidatorNext ==
  \/ validateSessions_Launch \/ validateSessions_SetCookie \/ validateSessions_Goto
  \/ validateSessions_Screenshot \/ validateSessions_Ask \/ validateSessions_Finally
  \/ validateSessions_Save

(* ----------------------------- retryOperation --------------------------- *)
\* what one invocation of operation can do: resolve with a value, or reject
OperationOutcomes == [ok : BOOLEAN, val : 1..2]

RetryInit == RetryStart /\ rMax \in 0..MaxRetries /\ rPc = "call"

\* for (let i = 0; i <= maxRetries; i++) { try { return await operation(); }
\* catch (error) { lastError = error; if (i < maxRetries) {...} } }  throw lastError
retryOperation_Attempt ==
  /\ rPc = "call" /\ rI <= rMax
  /\ UNCHANGED offRetry
  /\ \E out \in OperationOutcomes :
       /\ rAttempts' = Append(rAttempts, out)
       /\ IF out.ok
          THEN /\ rResult' = [kind |-> "returned", val |-> out.val]
               /\ rPc' = "done"
               /\ UNCHANGED <<rI, rLastError>>
          ELSE /\ rLastError' = out.val
               /\ IF rI < rMax
                  THEN rPc' = "wait" /\ UNCHANGED <<rI, rResult>>
                  ELSE /\ rI' = rI + 1
                       /\ rResult' = [kind |-> "thrown", val |-> rLastError']
                       /\ rPc' = "done"
  /\ UNCHANGED <<rMax, rWaits>>

retryDelay_Constant(i) == 1000

\* the delay before the next attempt
retryDelay(i) == 1000 * (i + 1)

\* await new Promise(resolve => setTimeout(resolve, 1000 * (i + 1))), then i++
retryOperation_Wait ==
  /\ rPc = "wait"
  /\ UNCHANGED offRetry
  /\ rWaits' = Append(rWaits, retryDelay(rI))
  /\ rI' = rI + 1
  /\ rPc' = "call"
  /\ UNCHANGED <<rMax, rLastError, rAttempts, rResult>>

RetryNext == retryOperation_Attempt \/ retryOperation_Wait

(* ---------------------------- deduplicateDomains ------------------------ *)
\* a cookie file: stats.mtimeMs and the keys of parseNetscapeCookies(file), in order
CookieFileChoices ==
  [mtime : 1..MaxMtime,
   domains : {<<>>, <<"a.io">>, <<"b.io">>, <<"a.io", "b.io">>, <<"b.io", "a.io">>}]

DedupInit ==
  /\ DedupStart
  /\ cookieFiles \in UNION {[1..n -> CookieFileChoices] : n \in 0..MaxDedupFiles}
  /\ ddPc = "parse"

\* for (const [domain, cookies] of domainMap.entries()) {
\*   domainFiles.get(domain).push({ file, mtime: stats.mtimeMs, cookies }) }
RECURSIVE PushDomains(_, _, _, _)
PushDomains(m, f, doms, i) ==
  IF i > Len(doms) THEN m
  ELSE PushDomains(MapPush(m, doms[i], [file |-> f, mtime |-> cookieFiles[f].mtime,
                                        cookies |-> <<f, doms[i]>>]),
                   f, doms, i + 1)

\* one round of the loop over cookieFiles in main
main_ParseFile ==
  /\ ddPc = "parse" /\ ddPos < Len(cookieFiles)
  /\ UNCHANGED offDedup
  /\ ddPos' = ddPos + 1
  /\ domainFiles' = PushDomains(domainFiles, ddPos + 1, cookieFiles[ddPos + 1].domains, 1)
  /\ UNCHANGED <<cookieFiles, deduped, ddPc>>

\* files.sort((a, b) => b.mtime - a.mtime): a stable sort, newest first
InsertNewest(s, x) ==
  LET n == Cardinality({i \in 1..Len(s) : s[i].mtime >= x.mtime})
  IN SubSeq(s, 1, n) \o <<x>> \o SubSeq(s, n + 1, Len(s))
RECURSIVE SortNewestFrom(_, _, _)
SortNewestFrom(s, i, acc) ==
  IF i > Len(s) THEN acc ELSE SortNewestFrom(s, i + 1, InsertNewest(acc, s[i]))
SortNewest(s) == SortNewestFrom(s, 1, <<>>)

Newest_Last(sorted) == sorted[Len(sorted)]

\* the entry deduplicateDomains keeps of a sorted list
Newest(sorted) == sorted[1]

\* deduped.set(domain, files[0]) for every entry of domainFiles
deduplicateDomains(m) ==
  [i \in 1..Len(m) |-> [key |-> m[i].key, val |-> Newest(SortNewest(m[i].val))]]

\* const dedupedDomains = deduplicateDomains(domainFiles); the lists of
\* domainFiles are sorted in place
deduplicateDomains_Call ==
  /\ ddPc = "parse" /\ ddPos = Len(cookieFiles)
  /\ UNCHANGED offDedup
  /\ deduped' = deduplicateDomains(domainFiles)
  /\ domainFiles' = [i \in 1..Len(domainFiles) |->
                       [key |-> domainFiles[i].key, val |-> SortNewest(domainFiles[i].val)]]
  /\ ddPc' = "deduped"
  /\ UNCHANGED <<cookieFiles, ddPos>>

DedupNext == main_ParseFile \/ deduplicateDomains_Call

(* ------------------- prepared file names and domains -------------------- *)
\* the first two atoms of /[^[^\w.-][^\w.-]-]/: the class [^[^\w.-] and the class [^\w.-]
NotBracketCaretWord(c) == ~IsWordDotDash(c) /\ c \notin {"[", "^"}
NotWord(c) == ~IsWordDotDash(c)

\* the pattern matches at the head of s: the two classes, then "-" and "]"
SafePatternAt(s) ==
  /\ Len(s) >= 4
  /\ NotBracketCaretWord(SubSeq(s, 1, 1))
  /\ NotWord(SubSeq(s, 2, 2))
  /\ SubSeq(s, 3, 4) = "-]"

\* domainData.domain.replace(/[^[^\w.-][^\w.-]-]/g, "_")
RECURSIVE safeDomain(_)
safeDomain(s) ==
  IF s = "" THEN ""
  ELSE IF SafePatternAt(s) THEN "_" \o safeDomain(SubSeq(s, 5, Len(s)))
  ELSE Head(s) \o safeDomain(Tail(s))

\* path.basename(file, ".txt") of a file name without a directory part
basename(name, ext) ==
  IF Len(name) > Len(ext) /\ SubSeq(name, Len(name) - Len(ext) + 1, Len(name)) = ext
  THEN SubSeq(name, 1, Len(name) - Len(ext))
  ELSE name

\* .replace(/_/g, ".")
RECURSIVE UnderscoresToDots(_)
UnderscoresToDots(s) ==
  IF s = "" THEN ""
  ELSE (IF Head(s) = "_" THEN "." ELSE Head(s)) \o UnderscoresToDots(Tail(s))

\* the characters of the domains of the model
DomainAlphabet == {"a", "_", ".", "-", "!", "]"}
RECURSIVE DomainsOfLen(_)
DomainsOfLen(n) ==
  IF n = 0 THEN {""} ELSE {c \o s : c \in DomainAlphabet, s \in DomainsOfLen(n - 1)}
DiscoveredDomains == UNION {DomainsOfLen(n) : n \in 1..MaxDomainLen}

NameInit ==
  /\ discoveredDomain \in DiscoveredDomains
  /\ preparedFile = "" /\ testedDomain = "" /\ fnPc = "save"

\* saveWorkableData: cookieFilePath = path.join(prepared, `${safeDomain}.txt`)
saveWorkableData_FileName ==
  /\ fnPc = "save"
  /\ UNCHANGED offName
  /\ preparedFile' = safeDomain(discoveredDomain) \o ".txt"
  /\ fnPc' = "written"
  /\ UNCHANGED <<discoveredDomain, testedDomain>>

\* runAutoTestingMode / runManualTestingMode:
\* domain = path.basename(cookieFile.file, ".txt").replace(/_/g, ".")
runAutoTestingMode_Domain ==
  /\ fnPc = "written"
  /\ UNCHANGED offName
  /\ testedDomain' = UnderscoresToDots(basename(preparedFile, ".txt"))
  /\ fnPc' = "tested"
  /\ UNCHANGED <<discoveredDomain, preparedFile>>

NameNext == saveWorkableData_FileName \/ runAutoTestingMode_Domain

(* --------------------------- v3: determineTestUrl ----------------------- *)
DigitString(n) == SubSeq("0123456789", n + 1, n + 1)

\* `# - ${ep.url} (visited ${ep.visitCount} times)`
EndpointLine(ep) == "# - " \o ep.url \o " (visited " \o DigitString(ep.visitCount) \o " times)"

\* the header of a prepared cookie file, as far as determineTestUrl can match it,
\* and the cookie lines after it
PreparedLines(domain, endpoints) ==
  <<"# Netscape HTTP Cookie File", "# Domain: " \o domain, "# Best Endpoints:">>
  \o [i \in 1..Len(endpoints) |-> EndpointLine(endpoints[i])]
  \o <<"#", "", domain \o "\tTRUE\t/\tFALSE\t0\tsid\tv">>

\* the class [^\s)]
IsUrlChar(c) == c \notin {" ", "\t", "\n", ")"}

RECURSIVE TakeUrlChars(_)
TakeUrlChars(s) ==
  IF s = "" \/ ~IsUrlChar(Head(s)) THEN "" ELSE Head(s) \o TakeUrlChars(Tail(s))

\* /https?:[^\w.-][^\w.-][^\s)]+/ matched at the head of s: the match, or Null
UrlMatchAt(s) ==
  LET scheme == IF StartsWith(s, "https:") THEN "https:"
                ELSE IF StartsWith(s, "http:") THEN "http:" ELSE ""
      rest == SubSeq(s, Len(scheme) + 1, Len(s))
  IN IF scheme = "" \/ Len(rest) < 3 THEN ""
     ELSE IF IsWordDotDash(SubSeq(rest, 1, 1)) \/ IsWordDotDash(SubSeq(rest, 2, 2)) THEN ""
     ELSE LET tail == TakeUrlChars(SubSeq(rest, 3, Len(rest)))
          IN IF tail = "" THEN "" ELSE scheme \o SubSeq(rest, 1, 2) \o tail

\* line.match(...): the leftmost match, "" when there is none
RECURSIVE UrlMatch(_)
UrlMatch(s) ==
  IF s = "" THEN ""
  ELSE LET m == UrlMatchAt(s) IN IF m # "" THEN m ELSE UrlMatch(Tail(s))

\* the loop over the lines: the first line with a match decides
RECURSIVE HeaderEndpoint(_, _)
HeaderEndpoint(lines, i) ==
  IF i > Len(lines) THEN ""
  ELSE LET line == lines[i]
           m == IF StartsWith(line, "# - ") /\ Includes(line, "http") THEN UrlMatch(line) ELSE ""
       IN IF m # "" THEN m ELSE HeaderEndpoint(lines, i + 1)

\* the domain-specific URLs, in the order they are tried
DomainFallbacks ==
  <<[has |-> {"vancity"}, url |-> "https://banking.vancity.com/"],
    [has |-> {"americanexpress"}, url |-> "https://global.americanexpress.com/myca/"],
    [has |-> {"capitalone"}, url |-> "https://myaccounts.capitalone.com/"],
    [has |-> {"td.com"}, url |-> "https://easyweb.td.com/"],
    [has |-> {"rbc"},
     url |-> "https://www1.royalbank.com/cgi-bin/rbaccess/rbunxcgi?F6=1&F7=IB&F21=IB&F22=1&REQUEST=ClientSignin"],
    [has |-> {"bmo"}, url |-> "https://www1.bmo.com/banking/digital/login"],
    [has |-> {"gmail", "google"}, url |-> "https://mail.google.com/"],
    [has |-> {"linkedin"}, url |-> "https://www.linkedin.com/feed/"],
    [has |-> {"facebook"}, url |-> "https://www.facebook.com/"],
    [has |-> {"amazon"}, url |-> "https://www.amazon.com/your-account"],
    [has |-> {"walmart"}, url |-> "https://www.walmart.ca/account"]>>

FallbackHits(domainLower) ==
  {k \in 1..Len(DomainFallbacks) : \E w \in DomainFallbacks[k].has : Includes(domainLower, w)}

\* `https://${domain.replace(/^[^\w.-]/, "")}/`
DefaultUrl(domain) == "https://" \o CookieDomain(domain) \o "/"

determineTestUrl(lines, domain) ==
  LET fromHeader == HeaderEndpoint(lines, 1)
      hits == FallbackHits(ToLower(domain))
  IN IF fromHeader # "" THEN fromHeader
     ELSE IF hits # {} THEN DomainFallbacks[CHOOSE k \in hits : \A j \in hits : k <= j].url
     ELSE DefaultUrl(domain)

TestDomains == {"a.io", "mail.google.com", "www.Amazon.ca", "bmo.com", ".shop.io"}
EndpointPaths == {"/account", "/login", "/dashboard/(main)", "/settings?tab=1"}
EndpointUrls(domain) ==
  {"https://" \o CookieDomain(domain) \o p : p \in EndpointPaths} \cup {"http://" \o CookieDomain(domain) \o "/signin"}

\* the endpoint lists discovery can produce: distinct URLs, most visited first
EndpointLists(domain) ==
  {eps \in UNION {[1..n -> [url : EndpointUrls(domain), visitCount : 1..MaxVisits]] :
                    n \in 0..MaxListed} :
     \A i, j \in 1..Len(eps) :
       i < j => eps[i].url # eps[j].url /\ eps[i].visitCount >= eps[j].visitCount}

TestUrlInit ==
  /\ tuDomain \in TestDomains
  /\ tuEndpoints \in EndpointLists(tuDomain)
  /\ tuLines = <<>> /\ testUrl = "" /\ tuPc = "save"

\* saveWorkableData: fs.writeFileSync(cookieFilePath, header + allCookies.join("\n") + "\n")
saveWorkableData_Header ==
  /\ tuPc = "save"
  /\ UNCHANGED offTestUrl
  /\ tuLines' = PreparedLines(tuDomain, tuEndpoints)
  /\ tuPc' = "saved"
  /\ UNCHANGED <<tuDomain, tuEndpoints, testUrl>>

\* const testUrl = await this.determineTestUrl(cookieFile.file, domain)
determineTestUrl_Call ==
  /\ tuPc = "saved"
  /\ UNCHANGED offTestUrl
  /\ testUrl' = determineTestUrl(tuLines, tuDomain)
  /\ tuPc' = "done"
  /\ UNCHANGED <<tuDomain, tuEndpoints, tuLines>>

TestUrlNext == saveWorkableData_Header \/ determineTestUrl_Call

(* --------------------- navigateWithLogging and its callbacks ------------ *)
\* after logger.logHttpRequest(url, 'GET'), page.on('response', responseHandler),
\* setTimeout(..., 5000) and page.goto(url, options)
NavInit ==
  /\ NavStart /\ nListener = TRUE /\ nTimer = TRUE
  /\ nEvents = <<"HTTP_REQUEST">> /\ nMain = "navigate"

ResponseTimeout == 5
DynamicContentWait == 3

\* a second passes; the timer callback runs when its 5 seconds are over
Nav_Tick ==
  /\ nMain # "idle" /\ nClock < MaxNavClock
  /\ ~(nTimer /\ nClock = ResponseTimeout)
  /\ UNCHANGED offNav
  /\ nClock' = nClock + 1
  /\ UNCHANGED <<nListener, nTimer, nPromise, nGoto, nBody, nMain, nLeft, nEvents,
                 nRequest, nFrozen>>

\* logger.logHttpResponse(requestTimestamp, status, headers, bodySnippet): the
\* request record gets the response data and HTTP_RESPONSE is logged
navLogHttpResponse(status, bodySnippet) ==
  /\ nRequest' = [status |-> status, bodySnippet |-> bodySnippet]
  /\ nEvents' = Append(nEvents, "HTTP_RESPONSE")

\* responseHandler for a response whose URL matches: log it, start reading the
\* body, page.off, resolve(response); an exception in the try resolves with null
\* and leaves the listener registered
responseHandler ==
  /\ nListener /\ Len(nEvents) < MaxNavEvents
  /\ UNCHANGED offNav
  /\ \/ /\ navLogHttpResponse(200, "")
        /\ nBody' = "pending"
        /\ nListener' = FALSE
     \/ UNCHANGED <<nRequest, nEvents, nBody, nListener>>
  /\ nPromise' = "resolved"
  /\ UNCHANGED <<nClock, nTimer, nGoto, nMain, nLeft, nFrozen>>

\* response.text().then(body => logger.logHttpResponse(..., body)).catch(() => {})
responseText_Settled ==
  /\ nBody = "pending"
  /\ UNCHANGED offNav
  /\ \/ navLogHttpResponse(200, "html")
     \/ UNCHANGED <<nRequest, nEvents>>
  /\ nBody' = "settled"
  /\ UNCHANGED <<nClock, nListener, nTimer, nPromise, nGoto, nMain, nLeft, nFrozen>>

\* setTimeout(() => { page.off('response', responseHandler); resolve(null); }, 5000)
responseTimeout ==
  /\ nTimer /\ nClock = ResponseTimeout
  /\ UNCHANGED offNav
  /\ nTimer' = FALSE
  /\ nListener' = FALSE
  /\ nPromise' = "resolved"
  /\ UNCHANGED <<nClock, nGoto, nBody, nMain, nLeft, nEvents, nRequest, nFrozen>>

\* page.goto(url, options) resolves or rejects
goto_Settled ==
  /\ nGoto = "pending" /\ nMain = "navigate"
  /\ UNCHANGED offNav
  /\ nGoto' \in {"resolved", "rejected"}
  /\ UNCHANGED <<nClock, nListener, nTimer, nPromise, nBody, nMain, nLeft, nEvents,
                 nRequest, nFrozen>>

\* await Promise.all([navigationPromise, responsePromise]): main goes on when
\* both are resolved, or to its navigationError catch as soon as goto rejected
navigateWithLogging_Return ==
  /\ nMain = "navigate"
  /\ UNCHANGED offNav
  /\ \/ /\ nGoto = "resolved" /\ nPromise = "resolved"
        /\ UNCHANGED nEvents
     \/ /\ nGoto = "rejected" /\ Len(nEvents) < MaxNavEvents
        /\ nEvents' = Append(nEvents, "NAVIGATION_ERROR")
  /\ nMain' = "waiting"
  /\ nLeft' = nClock
  /\ UNCHANGED <<nClock, nListener, nTimer, nPromise, nGoto, nBody, nRequest, nFrozen>>

\* the log and the request record at the terminal event
Freeze(terminalEvent) ==
  /\ nEvents' = Append(nEvents, terminalEvent)
  /\ nFrozen' = [events |-> nEvents', request |-> nRequest]
  /\ nMain' = "terminal"

\* after the 3 second wait and checkLoginStatus: logSessionStatus, generateSummary
main_SessionStatus ==
  /\ nMain = "waiting" /\ nClock >= nLeft + DynamicContentWait
  /\ UNCHANGED offNav
  /\ Freeze("SESSION_STATUS")
  /\ UNCHANGED <<nClock, nListener, nTimer, nPromise, nGoto, nBody, nLeft, nRequest>>

\* an exception after the navigation (the fallback injection, checkLoginStatus'
\* caller): the catch logs FATAL_ERROR and takes generateSummary().timings
main_FatalError ==
  /\ nMain = "waiting"
  /\ UNCHANGED offNav
  /\ Freeze("FATAL_ERROR")
  /\ UNCHANGED <<nClock, nListener, nTimer, nPromise, nGoto, nBody, nLeft, nRequest>>

NavNext ==
  \/ Nav_Tick \/ responseHandler \/ responseText_Settled \/ responseTimeout
  \/ goto_Settled \/ navigateWithLogging_Return \/ main_SessionStatus \/ main_FatalError

(* ------------------------------ SIGINT --------------------------------- *)
Terminal == {"done", "fatal", "exited"}

\* process.on("SIGINT", () => { rl.close(); process.exit(0); })
SIGINT ==
  /\ pc \notin Terminal
  /\ UNCHANGED offRun
  /\ interrupted' = TRUE
  /\ pc' = "exited"
  /\ UNCHANGED <<variant, idx, files, browser, pages, pageSite, jar, launchLog, trace,
                 results, raised, navFailed, fallbacks, totalInjected, loginResult, summary>>

Next ==
  \/ V3_Launch \/ V3_LaunchFallback \/ V3_NewPage \/ readAndValidateCookies
  \/ V3_SetCookie \/ V3_NavigationReady \/ V3_Goto \/ analyzeSession
  \/ V3_Save \/ V3_PageClose \/ V3_Finish
  \/ V2_Launch \/ V2_StartDomain \/ V2_DomainContext \/ V2_Inject \/ V2_GotoTarget
  \/ V2_Reload \/ V2_Fallback \/ V2_CheckLogin \/ V2_Save \/ V2_Finish
  \/ SIGINT

Spec == Init /\ [][Next]_vars

InitBatch == RunIdle /\ BatchInit /\ FilterIdle /\ DiscIdle /\ UrlIdle
  /\ ClassIdle /\ MaskIdle /\ LogIdle /\ MixedIdle /\ ValIdle /\ RetryIdle /\ DedupIdle /\ NameIdle /\ TestUrlIdle /\ NavIdle

SpecBatch == InitBatch /\ [][BatchNext]_vars

InitFilter == RunIdle /\ BatchIdle /\ FilterInit /\ DiscIdle /\ UrlIdle
  /\ ClassIdle /\ MaskIdle /\ LogIdle /\ MixedIdle /\ ValIdle /\ RetryIdle /\ DedupIdle /\ NameIdle /\ TestUrlIdle /\ NavIdle

SpecFilter == InitFilter /\ [][FilterNext]_vars

InitDiscovery == RunIdle /\ BatchIdle /\ FilterIdle /\ DiscInit /\ UrlIdle
  /\ ClassIdle /\ MaskIdle /\ LogIdle /\ MixedIdle /\ ValIdle /\ RetryIdle /\ DedupIdle /\ NameIdle /\ TestUrlIdle /\ NavIdle

SpecDiscovery == InitDiscovery /\ [][DiscNext]_vars

InitEndpoints == RunIdle /\ BatchIdle /\ FilterIdle /\ EndpointsInit /\ UrlIdle
  /\ ClassIdle /\ MaskIdle /\ LogIdle /\ MixedIdle /\ ValIdle /\ RetryIdle /\ DedupIdle /\ NameIdle /\ TestUrlIdle /\ NavIdle

SpecEndpoints == InitEndpoints /\ [][EndpointsNext]_vars

InitUrl == RunIdle /\ BatchIdle /\ FilterIdle /\ DiscIdle /\ UrlInit
  /\ ClassIdle /\ MaskIdle /\ LogIdle /\ MixedIdle /\ ValIdle /\ RetryIdle /\ DedupIdle /\ NameIdle /\ TestUrlIdle /\ NavIdle

SpecUrl == InitUrl /\ [][UrlNext]_vars

InitClassify == RunIdle /\ BatchIdle /\ FilterIdle /\ DiscIdle /\ UrlIdle
  /\ ClassifyInit /\ MaskIdle /\ LogIdle /\ MixedIdle /\ ValIdle /\ RetryIdle /\ DedupIdle /\ NameIdle /\ TestUrlIdle /\ NavIdle

SpecClassify == InitClassify /\ [][ClassifyNext]_vars

SpecReanalysis == InitDiscovery /\ [][ReanalysisNext]_vars

InitMask == RunIdle /\ BatchIdle /\ FilterIdle /\ DiscIdle /\ UrlIdle
  /\ ClassIdle /\ MaskInit /\ LogIdle /\ MixedIdle /\ ValIdle /\ RetryIdle /\ DedupIdle /\ NameIdle /\ TestUrlIdle /\ NavIdle

SpecMask == InitMask /\ [][MaskNext]_vars

InitLogger == RunIdle /\ BatchIdle /\ FilterIdle /\ DiscIdle /\ UrlIdle
  /\ ClassIdle /\ MaskIdle /\ LoggerInit /\ MixedIdle /\ ValIdle /\ RetryIdle /\ DedupIdle /\ NameIdle /\ TestUrlIdle /\ NavIdle

SpecLogger == InitLogger /\ [][LoggerNext]_vars

InitMixed == RunIdle /\ BatchIdle /\ FilterIdle /\ DiscIdle /\ UrlIdle
  /\ ClassIdle /\ MaskIdle /\ LogIdle /\ MixedInit /\ ValIdle /\ RetryIdle /\ DedupIdle /\ NameIdle /\ TestUrlIdle /\ NavIdle

SpecMixed == InitMixed /\ [][MixedNext]_vars


InitValidator == RunIdle /\ BatchIdle /\ FilterIdle /\ DiscIdle /\ UrlIdle
  /\ ClassIdle /\ MaskIdle /\ LogIdle /\ MixedIdle /\ ValInit /\ RetryIdle /\ DedupIdle /\ NameIdle /\ TestUrlIdle /\ NavIdle

SpecValidator == InitValidator /\ [][ValidatorNext]_vars

InitRetry == RunIdle /\ BatchIdle /\ FilterIdle /\ DiscIdle /\ UrlIdle
  /\ ClassIdle /\ MaskIdle /\ LogIdle /\ MixedIdle /\ ValIdle /\ RetryInit /\ DedupIdle /\ NameIdle /\ TestUrlIdle /\ NavIdle

\* the event loop runs every pending continuation: the attempt and the timer
SpecRetry == InitRetry /\ [][RetryNext]_vars /\ WF_vars(RetryNext)

InitDedup == RunIdle /\ BatchIdle /\ FilterIdle /\ DiscIdle /\ UrlIdle
  /\ ClassIdle /\ MaskIdle /\ LogIdle /\ MixedIdle /\ ValIdle /\ RetryIdle /\ DedupInit /\ NameIdle /\ TestUrlIdle /\ NavIdle

SpecDedup == InitDedup /\ [][DedupNext]_vars

InitName == RunIdle /\ BatchIdle /\ FilterIdle /\ DiscIdle /\ UrlIdle
  /\ ClassIdle /\ MaskIdle /\ LogIdle /\ MixedIdle /\ ValIdle /\ RetryIdle /\ DedupIdle /\ NameInit /\ TestUrlIdle /\ NavIdle

SpecName == InitName /\ [][NameNext]_vars

InitTestUrl == RunIdle /\ BatchIdle /\ FilterIdle /\ DiscIdle /\ UrlIdle
  /\ ClassIdle /\ MaskIdle /\ LogIdle /\ MixedIdle /\ ValIdle /\ RetryIdle /\ DedupIdle /\ NameIdle /\ TestUrlInit /\ NavIdle

SpecTestUrl == InitTestUrl /\ [][TestUrlNext]_vars

InitNav == RunIdle /\ BatchIdle /\ FilterIdle /\ DiscIdle /\ UrlIdle
  /\ ClassIdle /\ MaskIdle /\ LogIdle /\ MixedIdle /\ ValIdle /\ RetryIdle /\ DedupIdle /\ NameIdle /\ TestUrlIdle /\ NavInit

SpecNav == InitNav /\ [][NavNext]_vars

(* ======================= properties of the run ========================= *)
Has(tr, e) == \E i \in 1..Len(tr) : tr[i] = e
ResultsOf(d) == {i \in 1..Len(results) : results[i].domain = d}
ErrorsOf(d) == {i \in ResultsOf(d) : results[i].kind = "ERROR"}
VerdictsOf(d) == ResultsOf(d) \ ErrorsOf(d)
TestOver == pc = "loop" /\ idx >= 1

\* C1: T-1 ordering. In the trace of every test the injection is complete
\* ("navready" follows the last setCookie) before the first goto is issued,
\* and no setCookie call follows a goto.
C1_InjectionBeforeNavigation ==
  \A i \in 1..Len(trace) :
    trace[i] = "goto" =>
      /\ \E j \in 1..(i - 1) : trace[j] = "navready"
      /\ \A j \in (i + 1)..Len(trace) : trace[j] # "setCookie"

\* C2: cookie isolation. When the injection phase of a test begins, the jar
\* holds no cookie injected during an earlier domain's test.
C2_JarIsolatedAtInjection ==
  pc \in {"inject", "v2_inject", "v2_fallback"} => jar \subseteq {idx}

\* C3: resource release. In the v3 modes no page of an earlier test is open
\* once a later test has started: only the page of the test in progress can be open.
C3_PageClosedBeforeNextTest ==
  (IsV3 /\ browser = "open") => pages \subseteq {idx}

\* C4: per-domain failure isolation. When the run is done, every domain has
\* been tested, every test in which an exception was raised has an errored
\* result, and the summary's error count covers all of them.
C4_FailureIsolation ==
  pc = "done" =>
    /\ \A d \in Domains : ResultsOf(d) # {}
    /\ \A d \in raised : ErrorsOf(d) # {}
    /\ summary.errors >= Cardinality(raised)

\* C5: NoCookies path. A test of a domain whose validated cookie list is empty
\* issues no setCookie and no goto, and ends with exactly one result, an
\* errored one, after which the loop goes on.
C5_NoCookies ==
  (idx >= 1 /\ files[idx].valid = 0) =>
    /\ ~Has(trace, "setCookie")
    /\ ~Has(trace, "goto")
    /\ TestOver => (Cardinality(ResultsOf(idx)) = 1 /\ VerdictsOf(idx) = {})

\* C6: strict phase sequence. A test that recorded a verdict went through
\* Preparing, Injecting, NavigationReady, Navigated, Analyzing exactly once
\* each and in this order, and a finished test has exactly one result.
DonePhases == <<"prepare", "setCookie", "navready", "goto", "capture">>

C6_PhaseSequence ==
  /\ (idx >= 1 /\ VerdictsOf(idx) # {}) => trace = DonePhases
  /\ TestOver => Cardinality(ResultsOf(idx)) = 1

C9_LaunchFallbackAttempted ==
  pc = "fatal" => Len(launchLog) >= 2

\* C10: interrupt handling. Once the SIGINT handler has run and the process
\* has exited, no browser or page opened by the run is left open.
C10_InterruptClosesBrowser ==
  interrupted => (browser # "open" /\ pages = {})

(* ================ properties of setCookiesWithTiming =================== *)
RECURSIVE SumOk(_)
SumOk(log) ==
  IF log = <<>> THEN 0
  ELSE SumOk(SubSeq(log, 1, Len(log) - 1))
       + (IF log[Len(log)].ok THEN log[Len(log)].hi - log[Len(log)].lo + 1 ELSE 0)

\* C8: batched injection. When setCookiesWithTiming returns, the batches
\* were issued in list order, each of the n cookies is in exactly one batch
\* of size 15 (the last one possibly smaller), every batch was attempted
\* exactly once whether or not an earlier one failed, the call returned
\* rather than threw, and the returned count is the total size of the
\* batches that succeeded.
C8_BatchedInjection ==
  /\ bPc \in {"idle", "loop", "returned"}
  /\ bPc = "returned" =>
       /\ Len(bLog) * batchSize >= bN
       /\ (Len(bLog) - 1) * batchSize < bN \/ bN = 0
       /\ \A k \in 1..Len(bLog) :
            /\ bLog[k].lo = (k - 1) * batchSize + 1
            /\ bLog[k].hi = IF k < Len(bLog) THEN k * batchSize ELSE bN
            /\ bLog[k].hi - bLog[k].lo + 1 \in 1..batchSize
       /\ \A c \in 1..bN :
            Cardinality({k \in 1..Len(bLog) : bLog[k].lo <= c /\ c <= bLog[k].hi}) = 1
       /\ bSet = SumOk(bLog)

C8_Witness ==
  /\ bPc = "returned"
  /\ Len(bLog) = 3
  /\ ~bLog[1].ok /\ bLog[2].ok /\ ~bLog[3].ok
  /\ bLog[3].hi - bLog[3].lo + 1 < batchSize
  /\ bSet = batchSize


(* =================== properties of the expiry filter =================== *)
ValidityPasses == {"processCookieFile", "readAndValidateCookies", "parseNetscapeCookies"}
InjectionPasses == {"readAndValidateCookies", "setCookiesWithTiming", "validateSessions"}
ExpiryOf(parts) == ParseInt(parts[5])

\* C11: every validity check answers "valid" for a line exactly when the line has
\* at least 7 fields and its expiry is 0 or greater than the now it is compared
\* with; expiry = now and a non-numeric expiry are not valid.
C11_ValidityPredicate ==
  fPass \in ValidityPasses =>
    \A i \in 1..Len(fLog) :
      fLog[i].valid <=>
        /\ Len(fLog[i].parts) >= 7
        /\ ExpiryOf(fLog[i].parts) # NaN
        /\ (ExpiryOf(fLog[i].parts) = 0 \/ ExpiryOf(fLog[i].parts) > fLog[i].now)

\* C12: in one filtering pass two lines with the same fields get the same verdict,
\* whatever the clock does during the pass.
C12_SingleNowPerPass ==
  fPass \in ValidityPasses =>
    \A i, j \in 1..Len(fLog) :
      fLog[i].parts = fLog[j].parts => fLog[i].valid = fLog[j].valid

\* C13: no line whose expiry is positive and not after the time of the injection
\* pass is handed to the browser driver by that pass.
C13_InjectionRevalidation ==
  fPass \in InjectionPasses =>
    \A i \in 1..Len(fLog) :
      fLog[i].valid =>
        ~(Len(fLog[i].parts) >= 5 /\ ExpiryOf(fLog[i].parts) > 0
          /\ ExpiryOf(fLog[i].parts) <= fLog[i].now)

(* ====================== properties of discovery ======================== *)
Analyzed == dPc \in {"analyzed", "saved"}
Profiles == 1..Len(crossReferences)
ProfileDomains == {crossReferences[i].domain : i \in Profiles}

\* C14: after analyzeDiscoveredData there is exactly one profile for every key of
\* the cookies, history, passwords or autofills map, and no other profile.
C14_ProfileExistence ==
  Analyzed =>
    /\ ProfileDomains = MapKeys(cookies) \cup MapKeys(history)
                          \cup MapKeys(passwords) \cup MapKeys(autofills)
    /\ Cardinality(ProfileDomains) = Len(crossReferences)

\* a domain known from its password entry alone next to a domain known from its
\* autofill entry alone
C14_Witness ==
  /\ dPc = "analyzed"
  /\ \E i, j \in Profiles :
       /\ crossReferences[i].hasPasswords /\ ~crossReferences[i].hasCookies
       /\ ~crossReferences[i].hasHistory /\ ~crossReferences[i].hasAutofills
       /\ crossReferences[j].hasAutofills /\ ~crossReferences[j].hasCookies
       /\ ~crossReferences[j].hasHistory /\ ~crossReferences[j].hasPasswords

\* the cookie lines of the processed files that are filed under a domain and valid
ProcessedFiles == {scanQueue[i] : i \in 1..scanPos}
HasValidCookie(domain) ==
  \E f \in ProcessedFiles :
    /\ f.type = "cookies"
    /\ \E i \in 1..Len(f.lines) :
         /\ Len(f.lines[i]) >= 7
         /\ CookieDomain(f.lines[i][1]) = domain
         /\ isValid(ParseInt(f.lines[i][5]), clock)
B(x) == IF x THEN 1 ELSE 0

\* C15: the score of every profile is min(100, 40c + 20h + 25p + 15a + 20w + 30e),
\* c being "the domain has at least one valid cookie"; a password-only domain
\* has score 25 and hasCookies = FALSE.
C15_CrossReferenceScore ==
  Analyzed =>
    \A i \in Profiles :
      LET d == crossReferences[i]
          e == \E k \in 1..Len(Flatten(MapGet(history, d.domain))) :
                 isAuthenticatedUrl(Flatten(MapGet(history, d.domain))[k].url)
      IN /\ d.crossReferenceScore =
              Min(100, 40 * B(HasValidCookie(d.domain)) + 20 * B(d.totalHistoryEntries > 0)
                       + 25 * B(d.totalPasswords > 0) + 15 * B(d.totalAutofills > 0)
                       + 20 * B(d.domain \in highValueDomains) + 30 * B(e))
         /\ (d.totalPasswords > 0 /\ d.totalHistoryEntries = 0 /\ d.totalAutofills = 0
               /\ ~HasValidCookie(d.domain) /\ d.domain \notin highValueDomains)
              => (d.crossReferenceScore = 25 /\ ~d.hasCookies)

AllSix(d) ==
  /\ d.hasCookies /\ d.hasHistory /\ d.hasPasswords /\ d.hasAutofills
  /\ d.highValue /\ Len(d.authenticatedEndpoints) > 0

\* C16: whenever a file is added to what was discovered, the score the analysis
\* gives a domain lies in 0..100, is 100 when all six signals are present, and
\* is not lower than the score it gave the domain before.
C16_ScoreBoundsMonotone ==
  [][LET before == Analyze(cookies, history, passwords, autofills)
         after == Analyze(cookies', history', passwords', autofills')
     IN scanPos' # scanPos => \A i \in 1..Len(after) :
          /\ after[i].crossReferenceScore \in 0..100
          /\ AllSix(after[i]) => after[i].crossReferenceScore = 100
          /\ \A j \in 1..Len(before) :
               before[j].domain = after[i].domain
                 => after[i].crossReferenceScore >= before[j].crossReferenceScore]_vars

C16_Witness ==
  /\ dPc = "analyzed"
  /\ \E i \in Profiles :
       AllSix(crossReferences[i]) /\ crossReferences[i].crossReferenceScore = 100

Ranked(s, scoreOf(_), cookiesOf(_)) ==
  \A i \in 1..(Len(s) - 1) :
    \/ scoreOf(s[i]) > scoreOf(s[i + 1])
    \/ scoreOf(s[i]) = scoreOf(s[i + 1]) /\ cookiesOf(s[i]) >= cookiesOf(s[i + 1])

\* C17: sortedDomains, savedDomains and topDomains are in descending order of
\* score, and domains of equal score in descending order of cookie count.
C17_Ranking ==
  dPc = "saved" =>
    /\ Ranked(SortedDomains(crossReferences),
              LAMBDA d : d.crossReferenceScore, LAMBDA d : d.totalCookies)
    /\ Ranked(savedDomains, LAMBDA d : d.score, LAMBDA d : d.cookies)
    /\ Ranked(topDomains, LAMBDA d : d.score, LAMBDA d : d.cookies)

Count(s, x) == Cardinality({i \in 1..Len(s) : s[i] = x})
Matching(domain) ==
  SelectSeq(Flatten(MapGet(history, domain)), LAMBDA e : isAuthenticatedUrl(e.url))

\* C18: authenticatedEndpoints holds at most 5 entries, each a matching history
\* entry of the domain, in non-increasing order of visitCount, and no matching
\* entry that was left out has more visits than one that was kept.
C18_TopEndpoints ==
  Analyzed =>
    \A i \in Profiles :
      LET eps == crossReferences[i].authenticatedEndpoints
          matching == Matching(crossReferences[i].domain)
      IN /\ Len(eps) = Min(5, Len(matching))
         /\ \A k \in 1..Len(eps) : Count(eps, eps[k]) <= Count(matching, eps[k])
         /\ \A k \in 1..(Len(eps) - 1) : eps[k].visitCount >= eps[k + 1].visitCount
         /\ \A m \in 1..Len(matching) :
              Count(eps, matching[m]) < Count(matching, matching[m])
                => \A k \in 1..Len(eps) : eps[k].visitCount >= matching[m].visitCount

\* six matching entries with different visit counts: one of them is left out
C18_Witness ==
  /\ dPc = "analyzed"
  /\ \E i \in Profiles :
       LET eps == crossReferences[i].authenticatedEndpoints
       IN /\ Len(Matching(crossReferences[i].domain)) >= 6
          /\ Len(eps) = 5
          /\ eps[1].visitCount = 2 /\ eps[5].visitCount = 1
          /\ Flatten(MapGet(history, crossReferences[i].domain))[1].visitCount = 1

\* the path of a URL and its segments
PathOf(u) ==
  LET rest == AfterScheme(u)
      host == UpTo(rest, "/?#")
  IN UpTo(SubSeq(rest, Len(host) + 1, Len(rest)), "?#")
RECURSIVE Segments(_)
Segments(path) ==
  IF path = "" THEN {}
  ELSE LET body == Tail(path)
           seg == UpTo(body, "/")
       IN {seg} \cup Segments(SubSeq(body, Len(seg) + 1, Len(body)))
SegmentMatch(u) == \E seg \in Segments(PathOf(u)) : ("/" \o ToLower(seg)) \in authPatterns

\* C19: isAuthenticatedUrl(url) is true exactly when a path segment of the URL
\* equals one of the patterns.
C19_SegmentMatching ==
  authResult # "none" => (authResult = "true" <=> SegmentMatch(url))

\* leading dot or "www." stripped, lowercased
Normalize(s) ==
  LET l == ToLower(s)
  IN IF StartsWith(l, "www.") THEN SubSeq(l, 5, Len(l))
     ELSE IF StartsWith(l, ".") THEN Tail(l)
     ELSE l
AllKeys == MapKeys(cookies) \cup MapKeys(history) \cup MapKeys(passwords) \cup MapKeys(autofills)

\* C20: every record is filed under its normalized domain, so two records whose
\* domains differ only by case, a leading dot or "www." share one key.
C20_NormalizedDomains ==
  /\ \A k \in AllKeys : Normalize(k) = k
  /\ \A k1, k2 \in AllKeys : Normalize(k1) = Normalize(k2) => k1 = k2

\* C21: the cookie list written for a saved domain holds no two cookies with the
\* same domain, path and name.
C21_DeduplicatedCookieSet ==
  dPc = "saved" =>
    \A i \in 1..Len(savedDomains) :
      LET list == allCookies(savedDomains[i].domain)
      IN \A j, k \in 1..Len(list) :
           j # k => <<list[j][1], list[j][3], list[j][6]>> # <<list[k][1], list[k][3], list[k][6]>>

\* C26: the success rate of the v3 summary is successful / (total - errored), and
\* is 0, never NaN, when total - errored is 0.
C26_SuccessRate ==
  (IsV3 /\ pc = "done") =>
    /\ successRate(summary) # NaN
    /\ summary.totalTested - summary.errors = 0 => successRate(summary) = 0
    /\ summary.totalTested - summary.errors > 0 =>
         LET d == summary.totalTested - summary.errors
             r == successRate(summary)
         IN 2 * r * d - 2000 * summary.successful \in (1 - d)..d

\* C25: when capturing the page fails in the analysis phase, the result recorded
\* for the test is the errored one, not a verdict.
C25_ClassificationFailure ==
  [][(pc \in {"analyze", "v2_analyze"} /\ idx \notin raised /\ idx \in raised')
       => results' = Append(results, ErrorResult(idx))]_vars

(* --------------------------- the classifiers --------------------------- *)
Classified == detection # NoDetection
Checked == loginCheck # NoLoginCheck
PageTexts == {ToLower(pageHtml), ToLower(pageTitle), ToLower(pageUrl)}
KeywordsIn(keywords) == {i \in 1..Len(keywords) : \E text \in PageTexts : Includes(text, keywords[i])}
NoKeywordIn(keywords) == KeywordsIn(keywords) = {}

\* C22: the confidence of both classifiers is an integer of 0..100, and a page
\* that matches no logged-in keyword and no login-prompt keyword gets
\* confidence 0 and a negative verdict.
C22_ConfidenceRange ==
  /\ Classified =>
       /\ detection.confidence \in 0..100
       /\ (NoKeywordIn(loggedInKeywords) /\ NoKeywordIn(loginKeywords))
            => (detection.confidence = 0 /\ detection.status = "NOT_LOGGED_IN")
  /\ Checked =>
       /\ loginCheck.confidence \in 0..100
       /\ (NoKeywordIn(LOGGED_IN_KEYWORDS) /\ NoKeywordIn(LOGIN_KEYWORDS))
            => (loginCheck.confidence = 0 /\ ~loginCheck.loggedIn)

\* the scores of the page, counted from the keyword lists and the four bonuses
Bonus(terms, points) ==
  IF \E t \in terms : Includes(ToLower(pageHtml), t) THEN points ELSE 0
ExpectedL ==
  Cardinality(KeywordsIn(loggedInKeywords))
  + Bonus({"logout", "sign out"}, 3) + Bonus({"welcome", "hello"}, 2)
  + Bonus({"profile", "account"}, 2) + Bonus({"dashboard", "inbox"}, 3)
ExpectedP == Cardinality(KeywordsIn(loginKeywords))
MaxL == Len(loggedInKeywords) + 10
MaxP == Len(loginKeywords)

\* C23: with L the matched logged-in keywords plus bonuses and P the matched
\* login-prompt keywords, the v3 confidence is 100 L / (L + P + 0.1) rounded to
\* the nearest integer, the status is LOGGED_IN exactly when confidence >= 60,
\* which is when 810 L >= 1190 P + 119, and confidence does not fall as L grows
\* nor rise as P grows.
C23_VerdictRule ==
  Classified =>
    LET L == ExpectedL
        P == ExpectedP
        c == detection.confidence
        tenths == 10 * (L + P) + 1
    IN /\ detection.loggedInScore = L
       /\ detection.loginScore = P
       /\ 2 * c * tenths - 2000 * L \in (0 - tenths)..tenths
       /\ (detection.status = "LOGGED_IN") <=> (c >= 60)
       /\ (detection.status = "NOT_LOGGED_IN") <=> (c < 60)
       /\ (c >= 60) <=> (810 * L >= 1190 * P + 119)
       /\ \A L2 \in L..MaxL : Confidence(L2, P) >= c
       /\ \A P2 \in P..MaxP : Confidence(L, P2) <= c

\* a page with matches of both kinds whose confidence falls below the threshold
C23_Witness ==
  /\ Classified
  /\ detection.loggedInScore >= 4 /\ detection.loginScore >= 1
  /\ detection.confidence \in 1..59
  /\ detection.status = "NOT_LOGGED_IN"

\* C24: a page with a logout term and a dashboard term in its markup and no
\* login-prompt keyword has loggedInScore >= 2 and status LOGGED_IN, and so has
\* status LOGGED_IN every page with a logged-in keyword and no login-prompt
\* keyword.
C24_PositiveClassification ==
  Classified =>
    /\ (/\ Includes(ToLower(pageHtml), "logout")
        /\ Includes(ToLower(pageHtml), "dashboard")
        /\ NoKeywordIn(loginKeywords))
         => (detection.loggedInScore >= 2 /\ detection.status = "LOGGED_IN")
    /\ (~NoKeywordIn(loggedInKeywords) /\ NoKeywordIn(loginKeywords))
         => detection.status = "LOGGED_IN"

C24_Witness ==
  /\ Classified
  /\ Includes(ToLower(pageHtml), "logout") /\ Includes(ToLower(pageHtml), "dashboard")
  /\ NoKeywordIn(loginKeywords)
  /\ detection.status = "LOGGED_IN"

C28_MaskHidesValue ==
  maskedValue # "none" =>
    LET n == Len(cookieValue) IN
    /\ n <= 4 => maskedValue = "***"
    /\ n > 4 => maskedValue = SubSeq(cookieValue, 1, 4) \o "***" \o SubSeq(cookieValue, n - 1, n)
    /\ n >= 1 => \E w \in ValuesOfLen(n) : w # cookieValue /\ maskValue(w) = maskedValue

(* ---------------------------- SessionLogger ---------------------------- *)
CallsOf(op) == SelectSeq(calls, LAMBDA c : c.op = op)
RECURSIVE BatchSizes(_)
BatchSizes(cs) == IF cs = <<>> THEN 0 ELSE Len(Head(cs).cookies) + BatchSizes(Tail(cs))
IsPrefix(s, t) == Len(s) <= Len(t) /\ SubSeq(t, 1, Len(s)) = s

SummaryConsistent ==
  /\ logSummary.cookieStats.totalInjected = BatchSizes(CallsOf("logCookieInjection"))
  /\ logSummary.httpStats.requests = Len(CallsOf("logHttpRequest"))
  /\ logSummary.httpStats.responses <= logSummary.httpStats.requests
  /\ CallsOf("logSessionStatus") # <<>> =>
       logSummary.sessionResult
         = CallsOf("logSessionStatus")[Len(CallsOf("logSessionStatus"))].args

\* C29: the summary taken after any sequence of logger calls reports the sum of
\* the sizes of the logged batches, the number of logHttpRequest calls, no more
\* responses than requests and the arguments of the last logSessionStatus call;
\* the events list only grows, with non-decreasing elapsed values.
C29_SummaryConsistency ==
  [][/\ IsPrefix(events, events')
     /\ \A i, j \in 1..Len(events') : i <= j => events'[i].elapsed <= events'[j].elapsed
     /\ lPc' = "summarized" => SummaryConsistent']_vars

\* a summary after a batch of two cookies, a request with its response and a
\* session status, with time passing between the calls
C29_Witness ==
  /\ lPc = "summarized"
  /\ logSummary.cookieStats.totalInjected >= 2
  /\ logSummary.httpStats.requests >= 1
  /\ logSummary.httpStats.responses >= 1
  /\ logSummary.sessionResult.status = "VALID_SESSION"
  /\ \E i, j \in 1..Len(events) : events[i].elapsed < events[j].elapsed

(* ------------------------- the mode 3 prompt --------------------------- *)
\* C30: in mode 3 the operator is asked exactly when the automatic confidence is
\* below 70; y or n sets loggedIn to the answer, confidence to 100 and
\* manualOverride; s keeps the automatic result without manualOverride; mode 2
\* never asks.
C30_MixedModePrompt ==
  /\ mode = "2" => (prompts = 0 /\ mPc # "ask")
  /\ mPc \in {"ask", "decided"} =>
       ((mPc = "ask" \/ prompts > 0) <=> (mode = "3" /\ autoResult.confidence < 70))
  /\ mPc = "decided" =>
       /\ (prompts > 0 /\ lastAnswer \in {"y", "n"}) =>
            /\ mixedResult.loggedIn = (lastAnswer = "y")
            /\ mixedResult.confidence = 100
            /\ manualOverride
       /\ (prompts = 0 \/ lastAnswer = "s") =>
            /\ mixedResult = autoResult
            /\ ~manualOverride
       /\ prompts > 0 => lastAnswer \in {"y", "n", "s"}

\* the operator, asked again after an answer that is not accepted, overrules a
\* positive automatic verdict
C30_Witness ==
  /\ mPc = "decided" /\ mode = "3"
  /\ prompts >= 2
  /\ autoResult.loggedIn /\ autoResult.confidence > 0
  /\ lastAnswer = "n" /\ ~mixedResult.loggedIn /\ manualOverride

(* ------------------------ results of a whole run ----------------------- *)
\* C32: when a run over the prepared domains is done, the results list holds
\* exactly one entry for each domain, whichever phase of its test failed.
C32_OneResultPerDomain ==
  pc = "done" =>
    /\ Len(results) = NumDomains
    /\ \A d \in Domains : Cardinality(ResultsOf(d)) = 1

(* ------------------------ session_validator ---------------------------- *)
\* C31: every URL test of the validator runs in a browser of its own, which is
\* closed on every path before the next one is launched: at most one browser is
\* open at any time, the open one is the one the current test launched, and none
\* is open between two tests or when the results are saved.
C31_FreshBrowserPerTest ==
  /\ Cardinality(vOpen) <= 1
  /\ vPc \in {"loop", "saved"} => vOpen = {}
  /\ vBrowser # Null => vBrowser = vLaunches
  /\ vOpen # {} /\ vPc # "fatal" => vOpen = {vBrowser}

\* a validation that was saved after every test launched a browser, one test
\* having failed with an exception and another having been answered
C31_Witness ==
  /\ vPc = "saved"
  /\ vLaunches = MaxTests
  /\ \E i \in 1..Len(vResults) : vResults[i].error # ""
  /\ \E i \in 1..Len(vResults) : vResults[i].manualResult = "LOGGED_IN"

\* C33: the counts of the summary partition the results: every result is counted
\* in exactly one bucket, so the buckets add up to the number of results.
C33_CountsPartition ==
  vPc = "saved" =>
    vCounts.loggedIn + vCounts.notLoggedIn + vCounts.unsure + vCounts.errors = Len(vResults)

\* C34: in every v2 result the number of cookies injected, as summed by the session
\* logger (cookiesSet), is at most the number of cookies of the domain
\* (cookiesCount), also when the navigation-error fallback injected again.
C34_InjectedAtMostAvailable ==
  IsV2 /\ pc = "v2_save" => totalInjected <= files[idx].valid

(* ----------------------- the v2 classifier's verdict -------------------- *)
\* the indicator values of a page for which checkLoginStatus returns r
IndicatorsOf(r) ==
  {ind \in [domainSpecific : BOOLEAN, loggedInKeywords : BOOLEAN,
            userContent : BOOLEAN, loginKeywords : BOOLEAN] :
     checkLoginStatus(ind.domainSpecific, ind.loggedInKeywords,
                      ind.userContent, ind.loginKeywords) = r}

Failed(k) == ~rAttempts[k].ok

RetryBounded ==
  /\ Len(rAttempts) <= rMax + 1
  /\ \A k \in 1..(Len(rAttempts) - 1) : Failed(k)
  /\ rResult.kind = "returned" =>
       /\ rAttempts[Len(rAttempts)].ok
       /\ rResult.val = rAttempts[Len(rAttempts)].val
  /\ rResult.kind = "thrown" =>
       /\ Len(rAttempts) = rMax + 1
       /\ \A k \in 1..Len(rAttempts) : Failed(k)
       /\ rResult.val = rAttempts[Len(rAttempts)].val
  /\ rWaits = [k \in 1..Len(rWaits) |-> 1000 * k]
  /\ rPc \in {"call", "done"} =>
       Len(rWaits) = Min(Cardinality({k \in 1..Len(rAttempts) : Failed(k)}), rMax)

\* C35: retryOperation(op, n) invokes op at most n + 1 times, returns the value of
\* the first invocation that succeeds without invoking op again, throws the error
\* of the last invocation when all n + 1 fail, waits 1000 * (i + 1) ms after the
\* failed attempt i unless it was the last one, and always settles.
C35_RetryBoundedAndSettles == []RetryBounded /\ <>(rPc = "done")

\* a call with n >= 2 that threw after n + 1 failures and n waits
C35_Witness ==
  /\ rMax >= 2
  /\ rResult.kind = "thrown"
  /\ Len(rAttempts) = rMax + 1
  /\ Len(rWaits) = rMax

(* ---------------------------- deduplicateDomains ------------------------ *)
\* the files of the input that hold cookies of a domain
FilesWith(domain) ==
  {f \in 1..Len(cookieFiles) :
     \E i \in 1..Len(cookieFiles[f].domains) : cookieFiles[f].domains[i] = domain}

\* C36: deduplicateDomains returns a map with exactly the domains of its input,
\* and the entry kept for a domain is one of the domain's input entries, with its
\* own cookies only, whose modification time is the largest of the domain.
C36_DedupByRecency ==
  ddPc = "deduped" =>
    /\ MapKeys(deduped) = {d \in {"a.io", "b.io"} : FilesWith(d) # {}}
    /\ Len(deduped) = Cardinality(MapKeys(deduped))
    /\ \A i \in 1..Len(deduped) :
         LET d == deduped[i].key
             e == deduped[i].val
         IN /\ e.file \in FilesWith(d)
            /\ e.mtime = cookieFiles[e.file].mtime
            /\ e.cookies = <<e.file, d>>
            /\ \A f \in FilesWith(d) : cookieFiles[f].mtime <= e.mtime

\* a domain found in an older and, later in the list, in a newer file
C36_Witness ==
  /\ ddPc = "deduped"
  /\ \E f, g \in FilesWith("a.io") : f < g /\ cookieFiles[f].mtime < cookieFiles[g].mtime
  /\ \E i \in 1..Len(deduped) : deduped[i].key = "a.io" /\ deduped[i].val.mtime = MaxMtime

(* ------------------- prepared file names and domains -------------------- *)
\* C38: the domain the testing modes derive from the name of a prepared cookie
\* file is the domain discovery recorded for it, underscores included.
C38_DomainRoundTrip ==
  fnPc = "tested" => testedDomain = discoveredDomain

(* --------------------------- v3: determineTestUrl ----------------------- *)
\* C39: determineTestUrl returns the first endpoint listed in the header of the
\* prepared file, the most visited one, when the header lists one; otherwise the
\* domain-specific URL of a domain that matches one, otherwise https://<domain>/.
C39_TestUrlSelection ==
  tuPc = "done" =>
    IF tuEndpoints # <<>>
    THEN /\ testUrl = tuEndpoints[1].url
         /\ \A i \in 1..Len(tuEndpoints) : tuEndpoints[i].visitCount <= tuEndpoints[1].visitCount
    ELSE /\ Includes(ToLower(tuDomain), "google") => testUrl = "https://mail.google.com/"
         /\ Includes(ToLower(tuDomain), "amazon") => testUrl = "https://www.amazon.com/your-account"
         /\ Includes(ToLower(tuDomain), "bmo") => testUrl = "https://www1.bmo.com/banking/digital/login"
         /\ tuDomain \in {"a.io", ".shop.io"} => testUrl = "https://" \o tuDomain \o "/"

(* --------------------- navigateWithLogging and its callbacks ------------ *)
\* C40: once the terminal event of a session (SESSION_STATUS or FATAL_ERROR) is
\* logged and the summary taken, no callback of navigateWithLogging appends an
\* event to the session log or alters the request record, and the response
\* listener is no longer registered once it matched or the timeout has run.
C40_NoLateLogMutation ==
  /\ nMain = "terminal" => nEvents = nFrozen.events /\ nRequest = nFrozen.request
  /\ nListener => nTimer

============================================================================
